---- MODULE Spec2Model ----
(***************************************************************************)
(* A model of the FlexLibs 2.0 analyzer (src/src/flexlibs2_analyzer.py):   *)
(* the relationship classifier, the signature extractor, the docstring     *)
(* parser, the host-call scanner, the class category and the whole-        *)
(* codebase fold of analyze_flexlibs2 / analyze_flexlibs_stable, the       *)
(* description and usage-hint synthesizers, the command line (main), the   *)
(* cross-reference against the LibLCM index and the repeated run; and of   *)
(* the index refresh script (src/src/refresh.py).                          *)
(*                                                                         *)
(* Text is modelled at token level: a name, a path or a line is a sequence *)
(* of tokens (strings), and Python's startswith / in / re.match are        *)
(* computed over those sequences.                                          *)
(***************************************************************************)
EXTENDS Integers, Sequences, FiniteSets, TLC

VARIABLES
    pc,             \* the running component's position: "start", then "done"
    lcm_data,       \* classifier: the HostCallSummary lists handed to _classify_mapping_type
    mapping_type,   \* classifier: the returned kind, "unset" before the call
    fn,             \* signature extractor: the function definition node
    sig,            \* signature extractor: the returned (params, param_details)
    doc_lines,      \* docstring parser: the lines read so far
    current_section,\* docstring parser: the section lines are attributed to
    current_arg,    \* docstring parser: the parameter a continuation line extends
    doc,            \* docstring parser: the result record
    scan_fn,        \* host-call scanner: the function definition node
    scan_todo,      \* host-call scanner: the queue of ast.walk(node)
    scan_result,    \* host-call scanner: the result dictionary
    module_path,    \* class category: the module path of the class
    category,       \* class category: the derived category, "" before the derivation
    source_type,    \* whole-codebase fold: "flexlibs2" or "flexlibs" (stable)
    py_files,       \* whole-codebase fold: the files of the directory, in listing order
    todo_files,     \* whole-codebase fold: the files the loop has not reached yet
    file_info,      \* whole-codebase fold: the file_info of the file folded last
    report,         \* whole-codebase fold: the result dictionary
    synth_input,    \* synthesizers: the method or class the texts are made for
    synth_output,   \* synthesizers: the method_info texts / the entity usage hint
    main_args,      \* main: the parsed command line
    main_disk,      \* main: the directories and files main finds and writes
    main_status,    \* main: the exit status of the process, "running" before the exit
    flexlibs_data,  \* cross-reference: the report whose references are validated
    liblcm_index,   \* cross-reference: liblcm_path and what is stored there
    validation,     \* cross-reference: the returned validation report, or the raise
    rerun_input,    \* repeated run: the source type and the listing of the directory
    clock,          \* repeated run: the time datetime.now() returns
    hash_seed,      \* repeated run: the string hash seed of the running process
    runs,           \* repeated run: the reports of the runs made so far
    refresh_args,   \* refresh script: the parsed command line
    refresh_log,    \* refresh script: the steps attempted so far, each with its result
    refresh_success,\* refresh script: the flag `success` of main
    refresh_code    \* refresh script: the value main returns, "running" before

classifyVars == <<lcm_data, mapping_type>>
sigVars == <<fn, sig>>

docVars == <<doc_lines, current_section, current_arg, doc>>

scanVars == <<scan_fn, scan_todo, scan_result>>

categoryVars == <<module_path, category>>

reportVars == <<source_type, py_files, todo_files, file_info, report>>

synthVars == <<synth_input, synth_output>>

mainVars == <<main_args, main_disk, main_status>>

xrefVars == <<flexlibs_data, liblcm_index, validation>>

rerunVars == <<rerun_input, clock, hash_seed, runs>>

refreshVars == <<refresh_args, refresh_log, refresh_success, refresh_code>>

\* the groups of the components above, and those of the components below
baseVars == <<classifyVars, sigVars, docVars, scanVars, categoryVars, reportVars>>
auxVars == <<synthVars, mainVars, xrefVars, rerunVars, refreshVars>>

vars == <<pc, classifyVars, sigVars, docVars, scanVars, categoryVars, reportVars, auxVars>>

\* the value of a variable group while another component runs
Idle == "idle"
ClassifyIdle == lcm_data = Idle /\ mapping_type = Idle
SigIdle == fn = Idle /\ sig = Idle
ScanIdle == scan_fn = Idle /\ scan_todo = Idle /\ scan_result = Idle
DocIdle == doc_lines = Idle /\ current_section = Idle /\ current_arg = Idle /\ doc = Idle
CategoryIdle == module_path = Idle /\ category = Idle
ReportIdle ==
    /\ source_type = Idle /\ py_files = Idle /\ todo_files = Idle
    /\ file_info = Idle /\ report = Idle
SynthIdle == synth_input = Idle /\ synth_output = Idle
MainIdle == main_args = Idle /\ main_disk = Idle /\ main_status = Idle
XrefIdle == flexlibs_data = Idle /\ liblcm_index = Idle /\ validation = Idle
RerunIdle == rerun_input = Idle /\ clock = Idle /\ hash_seed = Idle /\ runs = Idle
RefreshIdle ==
    /\ refresh_args = Idle /\ refresh_log = Idle
    /\ refresh_success = Idle /\ refresh_code = Idle
BaseIdle ==
    /\ ClassifyIdle /\ SigIdle /\ DocIdle /\ ScanIdle /\ CategoryIdle /\ ReportIdle
AuxIdle == SynthIdle /\ MainIdle /\ XrefIdle /\ RerunIdle /\ RefreshIdle

(***************************************************************************)
(* Generic helpers over sequences.                                         *)
(***************************************************************************)
Range(s) == {s[i] : i \in 1..Len(s)}

\* an append without the `not in` test
AppendAlways(list, x) == Append(list, x)

\* Python: `x not in lst` then lst.append(x)
AppendUnique(s, x) == IF x \in Range(s) THEN s ELSE Append(s, x)

\* the first n elements of s
Take(s, n) == SubSeq(s, 1, IF n < Len(s) THEN n ELSE Len(s))

\* the subsequence of s at the positions of set idx, order kept
RECURSIVE Pick(_, _, _)
Pick(s, idx, i) ==
    IF i > Len(s) THEN <<>>
    ELSE (IF i \in idx THEN <<s[i]>> ELSE <<>>) \o Pick(s, idx, i + 1)

Min(S) == CHOOSE x \in S : \A y \in S : x <= y

(***************************************************************************)
(* Bounds.                                                                 *)
(***************************************************************************)
\* longest factory / repository / mutation / utility list handed to the classifier
MaxCount == 3

(***************************************************************************)
(* Relationship classifier: _classify_mapping_type.                        *)
(***************************************************************************)
\* entries of properties_accessed as extract_lcm_calls renders them:
\* f"{attr_name} ({suffix_type})" for a suffix-decorated attribute, attr_name
\* for an allow-listed one (LexemeFormOA is both)
PropEntries ==
    << <<"Senses", "OS", " (", "OwningSequence", ")">>,
       <<"LexemeForm", "OA", " (", "OwningAtomic", ")">>,
       <<"LexemeForm", "OA">>,
       <<"Form">>,
       <<"Gloss">> >>

\* prop.split(" (")[0]: the text before the first " ("
RECURSIVE BaseProp(_)
BaseProp(prop) ==
    IF prop = <<>> \/ Head(prop) = " (" THEN <<>>
    ELSE <<Head(prop)>> \o BaseProp(Tail(prop))

UniqueProps(data) == {BaseProp(data.properties_accessed[i]) :
                        i \in 1..Len(data.properties_accessed)}

\* a plausible slip: rule 3 (one factory plus several properties or mutations) left out
ClassifyWithoutFactoryRule(data) ==
    LET num_factories == Len(data.factories_used)
        num_repos == Len(data.repositories_used)
        num_methods == Len(data.methods_called)
        num_utils == Len(data.utilities_used)
        num_unique_props == Cardinality(UniqueProps(data))
        total_lcm_usage == num_factories + num_repos + num_unique_props
                           + num_methods + num_utils
    IN  IF total_lcm_usage = 0 THEN "pure_python"
        ELSE IF num_factories > 1 THEN "composite"
        ELSE IF num_repos > 0 /\ num_unique_props > 2 THEN "composite"
        ELSE IF total_lcm_usage = 1 THEN "direct"
        ELSE IF num_unique_props = 1 /\ num_methods <= 1 /\ num_factories = 0
                /\ num_repos = 0 THEN "direct"
        ELSE IF num_unique_props <= 2 /\ num_methods = 0 /\ num_factories = 0
                /\ num_repos = 0 /\ num_utils = 0 THEN "direct"
        ELSE "convenience"

ClassifyMappingType(data) ==
    LET num_factories == Len(data.factories_used)
        num_repos == Len(data.repositories_used)
        num_methods == Len(data.methods_called)
        num_utils == Len(data.utilities_used)
        num_unique_props == Cardinality(UniqueProps(data))
        total_lcm_usage == num_factories + num_repos + num_unique_props
                           + num_methods + num_utils
    IN  IF total_lcm_usage = 0 THEN "pure_python"
        ELSE IF num_factories > 1 THEN "composite"
        ELSE IF num_factories = 1 /\ (num_unique_props > 2 \/ num_methods > 1)
            THEN "composite"
        ELSE IF num_repos > 0 /\ num_unique_props > 2 THEN "composite"
        ELSE IF total_lcm_usage = 1 THEN "direct"
        ELSE IF num_unique_props = 1 /\ num_methods <= 1 /\ num_factories = 0
                /\ num_repos = 0 THEN "direct"
        ELSE IF num_unique_props <= 2 /\ num_methods = 0 /\ num_factories = 0
                /\ num_repos = 0 /\ num_utils = 0 THEN "direct"
        ELSE "convenience"

\* a list of n distinct symbols (only its length reaches the classifier)
Symbols(n) == [i \in 1..n |-> i]

ClassifierInputs ==
    { [factories_used |-> Symbols(f),
       repositories_used |-> Symbols(r),
       properties_accessed |-> Pick(PropEntries, ps, 1),
       methods_called |-> Symbols(m),
       utilities_used |-> Symbols(u)] :
         f \in 0..MaxCount, r \in 0..MaxCount, m \in 0..MaxCount,
         u \in 0..MaxCount, ps \in SUBSET (1..Len(PropEntries)) }

ClassifyInit ==
    /\ lcm_data \in ClassifierInputs
    /\ mapping_type = "unset"
    /\ pc = "start"
    /\ SigIdle /\ DocIdle /\ ScanIdle /\ CategoryIdle /\ ReportIdle /\ AuxIdle

Classify ==
    /\ pc = "start"
    /\ pc' = "done"
    /\ mapping_type' = ClassifyMappingType(lcm_data)
    /\ UNCHANGED <<lcm_data, sigVars, docVars, scanVars, categoryVars, reportVars, auxVars>>

SpecClassify == ClassifyInit /\ [][Classify]_vars

\* the five counts of the classifier's rules
CountsOf(data) ==
    [f |-> Len(data.factories_used),
     r |-> Len(data.repositories_used),
     p |-> Cardinality({BaseProp(e) : e \in Range(data.properties_accessed)}),
     m |-> Len(data.methods_called),
     u |-> Len(data.utilities_used)]

RuleMatches(k, c) ==
    LET total == c.f + c.r + c.p + c.m + c.u
    IN  CASE k = 1 -> total = 0
          [] k = 2 -> c.f > 1
          [] k = 3 -> c.f = 1 /\ (c.p > 2 \/ c.m > 1)
          [] k = 4 -> c.r > 0 /\ c.p > 2
          [] k = 5 -> total = 1
          [] k = 6 -> c.p = 1 /\ c.m <= 1 /\ c.f = 0 /\ c.r = 0
          [] k = 7 -> c.p <= 2 /\ c.m = 0 /\ c.f = 0 /\ c.r = 0 /\ c.u = 0
          [] k = 8 -> TRUE

RuleKind == <<"pure_python", "composite", "composite", "composite",
              "direct", "direct", "direct", "convenience">>

FirstRule(c) == Min({k \in 1..8 : RuleMatches(k, c)})

(***************************************************************************)
(* C1: for every combination of the five counts the kind returned is that  *)
(* of the first matching rule of the eight-rule order; in particular       *)
(* (factories=1, unique properties=3, mutations=0) is composite. The       *)
(* expected kind is a function of the five counts alone, so equal counts   *)
(* get equal kinds.                                                        *)
(***************************************************************************)
C1_FirstMatchingRule ==
    mapping_type # "unset" =>
        LET c == CountsOf(lcm_data)
        IN  /\ mapping_type = RuleKind[FirstRule(c)]
            /\ (c.f = 1 /\ c.p = 3 /\ c.m = 0) => mapping_type = "composite"

\* rule 3 decides a summary whose four property entries have three base names
C1_Witness ==
    /\ mapping_type = "composite"
    /\ CountsOf(lcm_data).f = 1
    /\ CountsOf(lcm_data).p = 3
    /\ CountsOf(lcm_data).m = 0
    /\ Len(lcm_data.properties_accessed) = 4

(***************************************************************************)
(* Signature extractor: get_function_signature.                            *)
(***************************************************************************)
\* most entries of node.args.args after an optional leading self
MaxParams == 2

\* Python values, each with its type and its literal text
PyNone == [t |-> "NoneType", v |-> "None"]
PyInt0 == [t |-> "int", v |-> "0"]
PyStrX == [t |-> "str", v |-> "x"]
PyStr(text) == [t |-> "str", v |-> text]

\* default expressions: literal constants, a bare identifier, and an expression
\* that is neither (such as [] or -1)
DefaultNodes ==
    { [kind |-> "Constant", value |-> PyNone, id |-> ""],
      [kind |-> "Constant", value |-> PyInt0, id |-> ""],
      [kind |-> "Constant", value |-> PyStrX, id |-> ""],
      [kind |-> "Name", value |-> PyNone, id |-> "DEFAULT_WS"],
      [kind |-> "Other", value |-> PyNone, id |-> ""] }

\* annotations: none, or a plain name
Annotations == { [kind |-> "none", id |-> ""], [kind |-> "Name", id |-> "int"] }

ParamNames == <<"a", "b", "c", "d", "e">>

\* sequences over S of length exactly n
SeqOfLen(S, n) == [1..n -> S]

\* node.args of a function definition: args (self first when present) and the
\* defaults of its last parameters
FunctionDefs ==
    UNION { { [args |-> (IF withSelf THEN <<[arg |-> "self", annotation |-> [kind |-> "none", id |-> ""]]>>
                         ELSE <<>>)
                        \o [i \in 1..n |-> [arg |-> ParamNames[i], annotation |-> anns[i]]],
               defaults |-> ds] :
                 anns \in SeqOfLen(Annotations, n),
                 ds \in UNION { SeqOfLen(DefaultNodes, k) :
                                  k \in 0..(n + (IF withSelf THEN 1 ELSE 0)) } } :
            n \in 0..MaxParams, withSelf \in BOOLEAN }

\* repr(default.value)
Repr(value) == IF value.t = "str" THEN <<"'", value.v, "'">> ELSE <<value.v>>

\* a plausible slip: defaults aligned from the start of the parameter list
DefaultIndexFromStart(node, i) == i

\* default_idx = i - defaults_start (i counts from 0 in the code, from 1 here)
DefaultIndex(node, i) == i - (Len(node.args) - Len(node.defaults))

\* one iteration of the loop for parameter i: its (param_str, param_info), or
\* nothing for self
ParamOf(node, i) ==
    LET arg == node.args[i]
        ann == arg.annotation
        default_idx == DefaultIndex(node, i)
        hasDefault == default_idx >= 1 /\ default_idx <= Len(node.defaults)
        default == node.defaults[default_idx]
        typeStr == IF ann.kind = "Name" THEN <<": ", ann.id>> ELSE <<>>
        typeVal == IF ann.kind = "Name" THEN ann.id ELSE ""
        defVal == IF hasDefault /\ default.kind = "Constant" THEN default.value
                  ELSE IF hasDefault /\ default.kind = "Name" THEN PyStr(default.id)
                  ELSE PyNone
        defStr == IF hasDefault /\ default.kind = "Constant" THEN <<"=">> \o Repr(default.value)
                  ELSE IF hasDefault /\ default.kind = "Name" THEN <<"=", default.id>>
                  ELSE <<>>
    IN  IF arg.arg = "self" THEN <<>>
        ELSE << [str |-> <<arg.arg>> \o typeStr \o defStr,
                 info |-> [name |-> arg.arg, type |-> typeVal, default |-> defVal]] >>

RECURSIVE ParamsFrom(_, _)
ParamsFrom(node, i) ==
    IF i > Len(node.args) THEN <<>>
    ELSE ParamOf(node, i) \o ParamsFrom(node, i + 1)

GetFunctionSignature(node) ==
    LET ps == ParamsFrom(node, 1)
    IN  [params |-> [i \in 1..Len(ps) |-> ps[i].str],
         param_details |-> [i \in 1..Len(ps) |-> ps[i].info]]

SigInit ==
    /\ fn \in FunctionDefs
    /\ sig = Idle
    /\ pc = "start"
    /\ ClassifyIdle /\ DocIdle /\ ScanIdle /\ CategoryIdle /\ ReportIdle /\ AuxIdle

Signature ==
    /\ pc = "start"
    /\ pc' = "done"
    /\ sig' = GetFunctionSignature(fn)
    /\ UNCHANGED <<fn, classifyVars, docVars, scanVars, categoryVars, reportVars, auxVars>>

SpecSig == SigInit /\ [][Signature]_vars

\* the position in node.args of the emitted parameter named name
ArgPos(node, name) == CHOOSE i \in 1..Len(node.args) : node.args[i].arg = name

\* Python binds the k defaults to the last k parameters
SourceDefault(node, name) ==
    LET i == ArgPos(node, name)
        j == i - (Len(node.args) - Len(node.defaults))
    IN  IF j >= 1 THEN <<node.defaults[j]>> ELSE <<>>

(***************************************************************************)
(* C6: a parameter without a default in the source reports no default      *)
(* (the default field keeps its initial None), and a parameter with a      *)
(* renderable default (a literal constant, None included, or a bare        *)
(* identifier) reports a default that differs from the no-default value.   *)
(***************************************************************************)
C6_DefaultsReported ==
    pc = "done" =>
        \A i \in 1..Len(sig.param_details) :
            LET p == sig.param_details[i]
                src == SourceDefault(fn, p.name)
            IN  /\ src = <<>> => p.default = PyNone
                /\ (src # <<>> /\ src[1].kind \in {"Constant", "Name"})
                      => p.default # PyNone

(***************************************************************************)
(* Docstring parser: parse_docstring.  A line is a sequence of tokens: a   *)
(* word (\w+), a run of blanks " ", one of ( ) : . [ ] , or a run of words *)
(* and blanks.  The description, returns and example texts are token       *)
(* sequences too, with "\n" and " " as the joiners the code inserts.       *)
(***************************************************************************)
\* most lines of a docstring
MaxLines == 4

WordTokens == {"Args", "Returns", "Yields", "Raises", "Example", "Note", "Notes",
               "ws", "x", "int", "bool"}

\* runs of word characters and blanks
PhraseTokens == {"writing system", "whether found", "the x", "see below", "Some text"}

Blank == " "

\* the lines a docstring is made of
DocLineSet ==
    { <<"Args", ":">>,
      <<Blank, "Args", ":", Blank, "see below">>,
      <<"Returns", ":">>,
      <<"Yields", ":">>,
      <<"Raises", ":">>,
      <<"Example", ":">>,
      <<"Note", ":">>,
      <<"Notes", ":">>,
      <<Blank, "ws", Blank, "(", "int", ")", ":", Blank, "writing system">>,
      <<Blank, "x", ":", Blank, "the x">>,
      <<Blank, "bool", ":", Blank, "whether found">>,
      <<"Some text", ".", Blank, "the x">>,
      <<Blank, "whether found">>,
      <<>> }

RECURSIVE LStrip(_)
LStrip(s) == IF s # <<>> /\ Head(s) = Blank THEN LStrip(Tail(s)) ELSE s

RECURSIVE RStrip(_)
RStrip(s) == IF s # <<>> /\ s[Len(s)] = Blank THEN RStrip(SubSeq(s, 1, Len(s) - 1)) ELSE s

\* str.strip()
Strip(s) == RStrip(LStrip(s))

\* a plausible slip: stripped == word + ":" in place of startswith
IsHeaderAlone(s, word) == s = <<word, ":">>

\* stripped.startswith(word + ":")
StartsWithHeader(s, word) == Len(s) >= 2 /\ s[1] = word /\ s[2] = ":"

\* the section a header line switches to, "" for a line that is no header
HeaderSection(stripped) ==
    IF StartsWithHeader(stripped, "Args") THEN "args"
    ELSE IF StartsWithHeader(stripped, "Returns") \/ StartsWithHeader(stripped, "Yields")
        THEN "returns"
    ELSE IF StartsWithHeader(stripped, "Raises") THEN "raises"
    ELSE IF StartsWithHeader(stripped, "Example") THEN "example"
    ELSE IF StartsWithHeader(stripped, "Note") \/ StartsWithHeader(stripped, "Notes")
        THEN "notes"
    ELSE ""

\* the first position >= i of token t in s, 0 when there is none
RECURSIVE IndexFrom(_, _, _)
IndexFrom(s, t, i) ==
    IF i > Len(s) THEN 0 ELSE IF s[i] = t THEN i ELSE IndexFrom(s, t, i + 1)

\* the pattern without its optional group: only "name: description" matches
ArgMatchWithoutType(s) ==
    IF s = <<>> \/ s[1] \notin WordTokens \/ Len(s) < 2 \/ s[2] # ":" THEN <<>>
    ELSE << [name |-> s[1], type |-> <<>>, desc |-> LStrip(SubSeq(s, 3, Len(s)))] >>

\* re.match(r'^(\w+)(?:\s*\(([^)]+)\))?:\s*(.*)$', stripped): <<>> for no match,
\* else <<[name, type, desc]>>
ArgMatch(s) ==
    IF s = <<>> \/ s[1] \notin WordTokens THEN <<>>
    ELSE
        LET afterName == SubSeq(s, 2, Len(s))
            \* the optional group: blanks, "(", at least one token that is not ")", ")"
            t == LStrip(afterName)
            close == IndexFrom(t, ")", 1)
            hasType == t # <<>> /\ t[1] = "(" /\ close > 2
                       /\ close < Len(t) /\ t[close + 1] = ":"
            rest == IF hasType THEN SubSeq(t, close + 1, Len(t)) ELSE afterName
        IN  IF rest = <<>> \/ rest[1] # ":" THEN <<>>
            ELSE << [name |-> s[1],
                     type |-> IF hasType THEN SubSeq(t, 2, close - 1) ELSE <<>>,
                     desc |-> LStrip(Tail(rest))] >>

\* the characters of [\w\[\], ]
TypeTokens == WordTokens \cup PhraseTokens \cup {Blank, "[", "]", ","}

\* re.match(r'^([A-Za-z_][\w\[\], ]*?):\s+', stripped): <<>> for no match, else
\* <<group(1).strip()>>
TypeMatch(s) ==
    LET colon == IndexFrom(s, ":", 1)
    IN  IF /\ colon > 1
           /\ s[1] \in WordTokens \cup PhraseTokens
           /\ \A i \in 1..(colon - 1) : s[i] \in TypeTokens
           /\ colon < Len(s) /\ s[colon + 1] = Blank
        THEN << Strip(SubSeq(s, 1, colon - 1)) >>
        ELSE <<>>

\* current_arg = None
NoArg == ""

EmptyDoc ==
    [summary |-> <<>>, description |-> <<>>, args |-> <<>>, returns |-> <<>>,
     return_type |-> <<>>, raises |-> <<>>, example |-> <<>>]

\* the loop body for one line that is no section header
ProcessContent(result, section, arg, line) ==
    LET stripped == Strip(line)
    IN  CASE section = "description" ->
               [res |-> [result EXCEPT !.description =
                            IF @ # <<>> THEN @ \o <<"\n">> \o stripped ELSE stripped],
                arg |-> arg]
          [] section = "args" ->
               LET m == ArgMatch(stripped)
               IN  IF m # <<>>
                   THEN [res |-> [result EXCEPT !.args =
                                    (m[1].name :> [type |-> m[1].type,
                                                   description |-> m[1].desc]) @@ @],
                         arg |-> m[1].name]
                   ELSE IF arg # NoArg /\ stripped # <<>>
                   THEN [res |-> [result EXCEPT !.args[arg].description =
                                    @ \o <<Blank>> \o stripped],
                         arg |-> arg]
                   ELSE [res |-> result, arg |-> arg]
          [] section = "returns" ->
               IF result.returns # <<>>
               THEN [res |-> [result EXCEPT !.returns = @ \o <<Blank>> \o stripped],
                     arg |-> arg]
               ELSE LET tm == TypeMatch(stripped)
                    IN  [res |-> [result EXCEPT
                                    !.returns = stripped,
                                    !.return_type = IF tm # <<>> THEN tm[1] ELSE @],
                         arg |-> arg]
          [] section = "raises" ->
               [res |-> IF stripped # <<>>
                        THEN [result EXCEPT !.raises = Append(@, stripped)]
                        ELSE result,
                arg |-> arg]
          [] section = "example" ->
               [res |-> [result EXCEPT !.example =
                            IF @ # <<>> THEN @ \o <<"\n">> \o line ELSE line],
                arg |-> arg]
          [] OTHER -> [res |-> result, arg |-> arg]

\* a plausible slip: the Returns: / Yields: header does not close the args section
SectionAfterKeepingArgs(section, line) ==
    LET h == HeaderSection(Strip(line))
    IN  IF h = "" \/ (h = "returns" /\ section = "args") THEN section ELSE h

\* current_section after the header checks of one line
SectionAfter(section, line) ==
    LET h == HeaderSection(Strip(line))
    IN  IF h # "" THEN h ELSE section

\* the text before the first occurrence of the token run sep
RECURSIVE Before(_, _)
Before(s, sep) ==
    IF Len(s) < Len(sep) THEN s
    ELSE IF SubSeq(s, 1, Len(sep)) = sep THEN <<>>
    ELSE <<Head(s)>> \o Before(Tail(s), sep)

\* lines 113-116: the summary is the first sentence of the first paragraph
Summary(description) ==
    LET first_para == Before(description, <<"\n", "\n">>)
    IN  IF "." \in Range(first_para) THEN Before(first_para, <<".">>) \o <<".">>
        ELSE first_para

DocInit ==
    /\ doc_lines = <<>>
    /\ current_section = "description"
    /\ current_arg = NoArg
    /\ doc = EmptyDoc
    /\ pc = "lines"
    /\ ClassifyIdle /\ SigIdle /\ ScanIdle /\ CategoryIdle /\ ReportIdle /\ AuxIdle

\* one iteration of the loop over lines (lines 56-111)
ParseLine ==
    /\ pc = "lines"
    /\ Len(doc_lines) < MaxLines
    /\ \E line \in DocLineSet :
         LET section == SectionAfter(current_section, line)
             isHeader == HeaderSection(Strip(line)) # ""
             step == ProcessContent(doc, section, current_arg, line)
         IN  /\ doc_lines' = Append(doc_lines, line)
             /\ current_section' = section
             /\ doc' = IF isHeader THEN doc ELSE step.res
             /\ current_arg' = IF isHeader THEN current_arg ELSE step.arg
    /\ UNCHANGED <<pc, classifyVars, sigVars, scanVars, categoryVars, reportVars, auxVars>>

\* the end of the text: the summary is extracted and the result returned
DocFinish ==
    /\ pc = "lines"
    /\ pc' = "done"
    /\ doc' = [doc EXCEPT !.summary = IF doc.description # <<>>
                                      THEN Summary(doc.description) ELSE @]
    /\ UNCHANGED <<doc_lines, current_section, current_arg, classifyVars, sigVars, scanVars, categoryVars, reportVars, auxVars>>

DocNext == ParseLine \/ DocFinish

SpecDoc == DocInit /\ [][DocNext]_vars

IsLine(line, word) == StartsWithHeader(Strip(line), word)

\* a line "Returns:" has been read after a line "Args:"
ReturnsSeenAfterArgs(lines) ==
    \E i, j \in 1..Len(lines) : i < j /\ IsLine(lines[i], "Args") /\ IsLine(lines[j], "Returns")

\* the section of the last header line read, "description" when none was read
RECURSIVE LastHeader(_)
LastHeader(lines) ==
    IF lines = <<>> THEN "description"
    ELSE IF HeaderSection(Strip(lines[Len(lines)])) # ""
        THEN HeaderSection(Strip(lines[Len(lines)]))
    ELSE LastHeader(SubSeq(lines, 1, Len(lines) - 1))

\* a line has just been read
LineRead == doc_lines' # doc_lines

NewLine == doc_lines'[Len(doc_lines')]

EndsWith(s, t) == Len(s) >= Len(t) /\ SubSeq(s, Len(s) - Len(t) + 1, Len(s)) = t

(***************************************************************************)
(* C7 as stated: once a line "Returns:" has been read after a line         *)
(* "Args:", no later line is added to the args mapping.                    *)
(***************************************************************************)
C7_NoLaterArgs ==
    [][(LineRead /\ ReturnsSeenAfterArgs(doc_lines)) => doc'.args = doc.args]_vars

(***************************************************************************)
(* C7 amended: section attribution follows the last header read.  A line   *)
(* read while the last header is not "Args:" leaves the args mapping       *)
(* alone, whatever its shape; a non-blank line read after "Returns:" (and  *)
(* before any further header) ends the returns text.  After "Returns:" a   *)
(* line reaches the args mapping only behind a further "Args:" header.     *)
(***************************************************************************)
C7_AttributionFollowsLastHeader ==
    [][(LineRead /\ HeaderSection(Strip(NewLine)) = "") =>
          /\ LastHeader(doc_lines) # "args" => doc'.args = doc.args
          /\ (LastHeader(doc_lines) = "returns" /\ Strip(NewLine) # <<>>) =>
                /\ EndsWith(doc'.returns, Strip(NewLine))
                /\ doc'.returns # doc.returns]_vars

\* "Args:", a parameter line, "Returns:", then a line shaped like a parameter
\* that went to the returns text
C7_Witness ==
    /\ Len(doc_lines) = 4
    /\ IsLine(doc_lines[1], "Args")
    /\ IsLine(doc_lines[3], "Returns")
    /\ ArgMatch(Strip(doc_lines[4])) # <<>>
    /\ DOMAIN doc.args = {"ws"}
    /\ doc.returns = Strip(doc_lines[4])

(***************************************************************************)
(* The shapes of parameter lines and of the first return line.             *)
(***************************************************************************)
\* the ways to read s as `name (type): description`: a word, blanks, the type in
\* parentheses, a colon, the description
TypedParamReadings(s) ==
    { [name |-> s[1], type |-> SubSeq(s, a + 1, b - 1),
       description |-> LStrip(SubSeq(s, b + 2, Len(s)))] :
        <<a, b>> \in { p \in (1..Len(s)) \X (1..Len(s)) :
                        /\ s[1] \in WordTokens
                        /\ 1 < p[1] /\ p[1] + 1 < p[2] /\ p[2] < Len(s)
                        /\ \A k \in 2..(p[1] - 1) : s[k] = Blank
                        /\ s[p[1]] = "(" /\ s[p[2]] = ")" /\ s[p[2] + 1] = ":"
                        /\ \A k \in (p[1] + 1)..(p[2] - 1) : s[k] # ")" } }

\* the ways to read s as `TypeToken: description`: a word, a colon, a blank, the rest
TypedReturnReadings(s) ==
    IF Len(s) >= 3 /\ s[1] \in WordTokens /\ s[2] = ":" /\ s[3] = Blank
    THEN { s[1] } ELSE {}

\* the line just read is no header and is attributed to the section
ContentReadIn(section) ==
    /\ LineRead
    /\ HeaderSection(Strip(NewLine)) = ""
    /\ current_section' = section

\* C23: a line `name (type): description` read in the args section gives the
\* args entry name -> {type, description}; the first line of the returns
\* text, when it reads `TypeToken: description`, sets return_type to
\* TypeToken; the docstring Args: / ws (int): writing system / Returns: /
\* bool: whether found gives the one args entry ws -> {int, writing system}
\* and the return type bool
C23_TypedLinesAreCaptured ==
    /\ [][/\ ContentReadIn("args") =>
               \A r \in TypedParamReadings(Strip(NewLine)) :
                  /\ r.name \in DOMAIN doc'.args
                  /\ doc'.args[r.name] = [type |-> r.type, description |-> r.description]
          /\ (ContentReadIn("returns") /\ doc.returns = <<>>) =>
               \A t \in TypedReturnReadings(Strip(NewLine)) : doc'.return_type = <<t>>]_vars
    /\ [](doc_lines = << <<"Args", ":">>,
                         <<Blank, "ws", Blank, "(", "int", ")", ":", Blank, "writing system">>,
                         <<"Returns", ":">>,
                         <<Blank, "bool", ":", Blank, "whether found">> >>
            => /\ DOMAIN doc.args = {"ws"}
               /\ doc.args["ws"] = [type |-> <<"int">>, description |-> <<"writing system">>]
               /\ doc.return_type = <<"bool">>)

\* the docstring of the example has been parsed to its end
C23_Witness ==
    /\ pc = "done"
    /\ doc_lines = << <<"Args", ":">>,
                      <<Blank, "ws", Blank, "(", "int", ")", ":", Blank, "writing system">>,
                      <<"Returns", ":">>,
                      <<Blank, "bool", ":", Blank, "whether found">> >>
    /\ TypedParamReadings(Strip(doc_lines[2])) # {}
    /\ TypedReturnReadings(Strip(doc_lines[4])) = {"bool"}
    /\ doc.returns = <<"bool", ":", Blank, "whether found">>

(***************************************************************************)
(* The description section is never re-entered.                            *)
(***************************************************************************)
\* Args:, Returns:, Yields:, Raises:, Example:, Note:, Notes:
HeaderTokens == {"Args", "Returns", "Yields", "Raises", "Example", "Note", "Notes"}

\* the line begins, after its indentation, with a header token
BeginsWithHeaderToken(line) ==
    LET s == LStrip(line)
    IN  Len(s) >= 2 /\ s[1] \in HeaderTokens /\ s[2] = ":"

HeaderSeen(lines) == \E i \in 1..Len(lines) : BeginsWithHeaderToken(lines[i])

\* the lines before the first one that begins with a header token
RECURSIVE BeforeFirstHeader(_)
BeforeFirstHeader(lines) ==
    IF lines = <<>> \/ BeginsWithHeaderToken(Head(lines)) THEN <<>>
    ELSE <<Head(lines)>> \o BeforeFirstHeader(Tail(lines))

\* the stripped lines joined by "\n", an empty text being started afresh
RECURSIVE JoinedDescription(_)
JoinedDescription(lines) ==
    IF lines = <<>> THEN <<>>
    ELSE LET text == JoinedDescription(SubSeq(lines, 1, Len(lines) - 1))
             stripped == Strip(lines[Len(lines)])
         IN  IF text # <<>> THEN text \o <<"\n">> \o stripped ELSE stripped

\* C29: the current section leaves "description" and never returns to it;
\* once a line beginning with a header token has been read no later line
\* changes the description, which is made of the lines before the first
\* header only, and so is the summary; a line beginning with a header token
\* changes no section of the result, trailing text or not
C29_DescriptionNeverReentered ==
    /\ [][/\ current_section # "description" => current_section' # "description"
          /\ (LineRead /\ HeaderSeen(doc_lines)) => doc'.description = doc.description
          /\ (LineRead /\ BeginsWithHeaderToken(NewLine)) =>
                /\ doc' = doc
                /\ current_section' # "description"]_vars
    /\ [](/\ current_section = "description" <=> ~HeaderSeen(doc_lines)
          /\ doc.description = JoinedDescription(BeforeFirstHeader(doc_lines))
          /\ pc = "done" =>
                doc.summary = IF doc.description # <<>> THEN Summary(doc.description)
                              ELSE <<>>)

\* a description line, a header line carrying trailing text, then the same
\* description line again: only the first one is in the description
C29_Witness ==
    /\ pc = "done"
    /\ doc_lines = << <<"Some text", ".", Blank, "the x">>,
                      <<Blank, "Args", ":", Blank, "see below">>,
                      <<"Some text", ".", Blank, "the x">> >>
    /\ doc.description = <<"Some text", ".", Blank, "the x">>
    /\ doc.summary = <<"Some text", ".">>
    /\ DOMAIN doc.args = {}

(***************************************************************************)
(* Alignment of defaults in the signature extractor.                       *)
(***************************************************************************)
\* the positions of the declared parameters that are not self, in order
DeclaredPositions(node) ==
    SelectSeq([i \in 1..Len(node.args) |-> i], LAMBDA i : node.args[i].arg # "self")

\* the text of a default expression the extractor renders: a literal constant
\* or a bare identifier; nothing for any other expression
RenderedDefault(default) ==
    IF default.kind = "Constant" THEN Repr(default.value)
    ELSE IF default.kind = "Name" THEN <<default.id>>
    ELSE <<>>

\* C24: with n declared parameters (self included) and k defaults, default j
\* is reported on declared parameter n-k+j and on no other parameter; the
\* emitted list leaves self out and keeps the other parameters in
\* declaration order.  A default that is neither a literal constant nor a
\* bare identifier is reported on no parameter.
C24_DefaultsAlignFromTheEnd ==
    pc = "done" =>
        LET n == Len(fn.args)
            k == Len(fn.defaults)
            declared == DeclaredPositions(fn)
        IN  /\ Len(sig.params) = Len(declared)
            /\ Len(sig.param_details) = Len(declared)
            /\ \A m \in 1..Len(declared) :
                  LET p == declared[m]
                      j == p - (n - k)
                      text == IF j >= 1 THEN RenderedDefault(fn.defaults[j]) ELSE <<>>
                  IN  /\ sig.param_details[m].name = fn.args[p].arg
                      /\ sig.params[m][1] = fn.args[p].arg
                      /\ text = <<>> => "=" \notin Range(sig.params[m])
                      /\ text # <<>> => EndsWith(sig.params[m], <<"=">> \o text)

\* def f(self, a, b=0): one default of two parameters after self
C24_Witness ==
    /\ pc = "done"
    /\ Len(fn.args) = 3 /\ fn.args[1].arg = "self"
    /\ Len(fn.defaults) = 1 /\ fn.defaults[1].kind = "Constant" /\ fn.defaults[1].value = PyInt0
    /\ fn.args[2].annotation.kind = "none" /\ fn.args[3].annotation.kind = "none"
    /\ sig.params = << <<"a">>, <<"b", "=", "0">> >>

(***************************************************************************)
(* Host-call scanner: extract_lcm_calls and its helpers.  An identifier is *)
(* a sequence of pieces (<<"I", "LexEntry", "Factory">>), the unparsed     *)
(* text of an expression is a sequence of pieces and punctuation, and      *)
(* Python's `in` on text is the occurrence of a run of pieces.             *)
(***************************************************************************)
\* most statements of a scanned function body
MaxStmts == 2

\* s[i..] starts with t
StartsAt(s, t, i) == i + Len(t) - 1 <= Len(s) /\ SubSeq(s, i, i + Len(t) - 1) = t

\* Python: t in s
Occurs(t, s) == \E i \in 1..Len(s) : StartsAt(s, t, i)

\* syntax-tree nodes
NameNode(id) == [kind |-> "Name", id |-> id]
AttributeNode(value, attr) == [kind |-> "Attribute", value |-> value, attr |-> attr]
CallNode(func, args) == [kind |-> "Call", func |-> func, args |-> args, keywords |-> <<>>]
CallKwNode(func, args, keywords) ==
    [kind |-> "Call", func |-> func, args |-> args, keywords |-> keywords]
\* x or <constant>
OrNode(left, right) == [kind |-> "BoolOp", left |-> left, right |-> right]
\* an expression nested too deeply for ast.unparse (RecursionError), e.g. 1 + 1 + ... + 1
DeepNode == [kind |-> "Deep"]

\* LCM_PROPERTY_SUFFIXES, in dictionary order
LCM_PROPERTY_SUFFIXES ==
    << <<"OA", "OwningAtomic">>, <<"OS", "OwningSequence">>, <<"OC", "OwningCollection">>,
       <<"RA", "ReferenceAtomic">>, <<"RS", "ReferenceSequence">>,
       <<"RC", "ReferenceCollection">> >>

\* the keys of LCM_UTILITIES
LCM_UTILITY_CLASSES == { <<"TsStringUtils">>, <<"ITsString">>, <<"ITsTextProps">> }

MutationMethods == { <<"Create">>, <<"Add">>, <<"Delete">>, <<"Remove">>, <<"Insert">>,
                     <<"Clear">>, <<"MoveTo">> }

PropertyAllowList ==
    { <<"Form">>, <<"Gloss">>, <<"Definition">>, <<"Comment">>, <<"CitationForm">>,
      <<"LexemeForm", "OA">>, <<"MorphType", "RA">>, <<"PartOfSpeech", "RA">>, <<"Guid">>,
      <<"Hvo">>, <<"Owner">>, <<"OwningFlid">>, <<"ClassID">>, <<"ClassName">> }

MultiStringMethods ==
    { <<"get_String">>, <<"set_String">>, <<"BestAnalysisAlternative">>,
      <<"BestVernacularAlternative">>, <<"CopyAlternatives">> }

\* the pieces some identifier starts with that begin with the letter I and go on
PiecesStartingWithI == {"Index"}

\* LCM_FACTORY_PATTERN.match(id) / LCM_REPOSITORY_PATTERN.match(id): I, at least one
\* more word character, then the word, anywhere after; anchored at the start only
PatternMatch(id, word) ==
    \/ id # <<>> /\ id[1] = "I" /\ \E k \in 3..Len(id) : id[k] = word
    \/ id # <<>> /\ id[1] \in PiecesStartingWithI /\ \E k \in 2..Len(id) : id[k] = word

\* the text of an expression as ast.unparse renders it
RECURSIVE Text(_)
RECURSIVE TextList(_)
TextList(nodes) ==
    IF nodes = <<>> THEN <<>>
    ELSE Text(Head(nodes)) \o (IF Len(nodes) > 1 THEN <<", ">> ELSE <<>>)
         \o TextList(Tail(nodes))
Text(node) ==
    CASE node.kind = "Name" -> node.id
      [] node.kind = "Constant" -> <<node.text>>
      [] node.kind = "Attribute" -> Text(node.value) \o <<".">> \o node.attr
      [] node.kind = "Call" ->
           Text(node.func) \o <<"(">>
              \o TextList(node.args \o [i \in 1..Len(node.keywords) |->
                                          node.keywords[i].value])
              \o <<")">>
      [] node.kind = "BoolOp" -> Text(node.left) \o <<" or ">> \o Text(node.right)
      [] OTHER -> <<"1 + 1 + ... + 1">>

\* ast.iter_child_nodes
Children(node) ==
    CASE node.kind = "Attribute" -> <<node.value>>
      [] node.kind = "Call" ->
           <<node.func>> \o node.args
              \o [i \in 1..Len(node.keywords) |-> node.keywords[i].value]
      [] node.kind = "BoolOp" -> <<node.left, node.right>>
      [] OTHER -> <<>>

\* the expression holds a node nested too deeply for ast.unparse
RECURSIVE TooDeep(_)
TooDeep(node) ==
    \/ node.kind = "Deep"
    \/ \E i \in 1..Len(Children(node)) : TooDeep(Children(node)[i])

\* ast.unparse: [ok, text]; ok is FALSE when it raises RecursionError
Unparse(node) ==
    IF TooDeep(node) THEN [ok |-> FALSE, text |-> <<>>]
    ELSE [ok |-> TRUE, text |-> Text(node)]

\* a plausible slip: the attribute / name fallback of lines 625-628 taken when
\* ast.unparse raises
GetCallStringWithFallback(call) ==
    LET u == Unparse(call.func)
    IN  IF u.ok THEN u.text
        ELSE IF call.func.kind = "Attribute" THEN call.func.attr
        ELSE IF call.func.kind = "Name" THEN call.func.id
        ELSE <<>>

\* _get_call_string: the unparsed call target, "" when unparsing raises
GetCallString(call) ==
    LET u == Unparse(call.func) IN IF u.ok THEN u.text ELSE <<>>

\* ast.walk: breadth first from the queue of nodes
RECURSIVE WalkQueue(_)
WalkQueue(queue) ==
    IF queue = <<>> THEN <<>>
    ELSE <<Head(queue)>> \o WalkQueue(Tail(queue) \o Children(Head(queue)))

\* the nodes ast.walk yields for a function definition that can change the result
Walk(node) == WalkQueue(node.body)

\* the parameter names of the function, self left out (lines 523-528)
ParamNamesOf(node) ==
    { <<node.args[i].arg>> : i \in {j \in 1..Len(node.args) : node.args[j].arg # "self"} }

\* _track_param_usage for one call
RECURSIVE TrackArgs(_, _, _, _, _)
TrackArgs(usage, call_target, args, i, param_names) ==
    IF i > Len(args) THEN usage
    ELSE LET arg == args[i]
             u == [kind |-> "arg", index |-> i - 1, target |-> call_target]
             next == IF arg.kind = "Name" /\ arg.id \in param_names
                     THEN (arg.id :> AppendUnique(IF arg.id \in DOMAIN usage
                                                   THEN usage[arg.id] ELSE <<>>, u)) @@ usage
                     ELSE usage
         IN  TrackArgs(next, call_target, args, i + 1, param_names)

RECURSIVE TrackKeywords(_, _, _, _, _)
TrackKeywords(usage, call_target, keywords, i, param_names) ==
    IF i > Len(keywords) THEN usage
    ELSE LET kw == keywords[i]
             u == [kind |-> "keyword", name |-> kw.arg, target |-> call_target]
             next == IF kw.value.kind = "Name" /\ kw.value.id \in param_names
                     THEN (kw.value.id :> AppendUnique(IF kw.value.id \in DOMAIN usage
                                                        THEN usage[kw.value.id] ELSE <<>>, u))
                          @@ usage
                     ELSE usage
         IN  TrackKeywords(next, call_target, keywords, i + 1, param_names)

TrackParamUsage(usage, child, param_names) ==
    LET call_target == IF child.func.kind = "Attribute" THEN child.func.attr
                       ELSE IF child.func.kind = "Name" THEN child.func.id
                       ELSE <<>>
    IN  IF call_target = <<>> THEN usage
        ELSE TrackKeywords(TrackArgs(usage, call_target, child.args, 1, param_names),
                           call_target, child.keywords, 1, param_names)

\* lines 550-557: the arguments of a GetService / GetInstance call
RECURSIVE RecordServiceArgs(_, _)
RecordServiceArgs(result, args) ==
    IF args = <<>> THEN result
    ELSE LET arg == Head(args)
             next == IF arg.kind # "Name" THEN result
                     ELSE IF PatternMatch(arg.id, "Factory")
                         THEN [result EXCEPT !.factories_used = AppendUnique(@, arg.id)]
                     ELSE IF PatternMatch(arg.id, "Repository")
                         THEN [result EXCEPT !.repositories_used = AppendUnique(@, arg.id)]
                     ELSE result
         IN  RecordServiceArgs(next, Tail(args))

\* lines 561-564: the arguments of an ObjectsIn call
RECURSIVE RecordObjectsInArgs(_, _)
RecordObjectsInArgs(result, args) ==
    IF args = <<>> THEN result
    ELSE LET arg == Head(args)
             next == IF arg.kind = "Name" /\ PatternMatch(arg.id, "Repository")
                     THEN [result EXCEPT !.repositories_used = AppendUnique(@, arg.id)]
                     ELSE result
         IN  RecordObjectsInArgs(next, Tail(args))

\* a plausible slip: the GetInstance target form left out of the service check
IsServiceCallWithoutGetInstance(call_str) == Occurs(<<"GetService">>, call_str)

\* line 549
IsServiceCall(call_str) ==
    Occurs(<<"GetService">>, call_str) \/ Occurs(<<"GetInstance">>, call_str)

\* line 560
IsObjectsInCall(call_str) == Occurs(<<"ObjectsIn">>, call_str)

\* LCM_UTILITIES (lines 331-335): each known utility class with its listed methods
LCM_UTILITIES ==
    [c \in LCM_UTILITY_CLASSES |->
        IF c = <<"TsStringUtils">>
        THEN { <<"MakeString">>, <<"MakeTss">>, <<"NormalizeToNFC">> }
        ELSE IF c = <<"ITsString">>
        THEN { <<"Text">>, <<"Length">>, <<"get_RunCount">> }
        ELSE { <<"GetIntProp">>, <<"GetStrProp">> }]

\* ScanCall with the utility branch also requiring the method to be listed
ScanCallListedUtilities(result, child) ==
    LET call_str == GetCallString(child)
        r1 == IF IsServiceCall(call_str) THEN RecordServiceArgs(result, child.args)
              ELSE result
        r2 == IF IsObjectsInCall(call_str) THEN RecordObjectsInArgs(r1, child.args)
              ELSE r1
        r3 == IF /\ child.func.kind = "Attribute"
                 /\ child.func.value.kind = "Name"
                 /\ child.func.value.id \in LCM_UTILITY_CLASSES
                 /\ child.func.attr \in LCM_UTILITIES[child.func.value.id]
              THEN [r2 EXCEPT !.utilities_used =
                       AppendUnique(@, child.func.value.id \o <<".">> \o child.func.attr)]
              ELSE r2
    IN  IF child.func.kind = "Attribute" /\ child.func.attr \in MutationMethods
        THEN [r3 EXCEPT !.methods_called =
                 AppendUnique(@, <<".">> \o child.func.attr \o <<"()">>)]
        ELSE r3

\* lines 545-582: what a call node adds
ScanCall(result, child) ==
    LET call_str == GetCallString(child)
        r1 == IF IsServiceCall(call_str) THEN RecordServiceArgs(result, child.args)
              ELSE result
        r2 == IF IsObjectsInCall(call_str) THEN RecordObjectsInArgs(r1, child.args)
              ELSE r1
        r3 == IF /\ child.func.kind = "Attribute"
                 /\ child.func.value.kind = "Name"
                 /\ child.func.value.id \in LCM_UTILITY_CLASSES
              THEN [r2 EXCEPT !.utilities_used =
                       AppendUnique(@, child.func.value.id \o <<".">> \o child.func.attr)]
              ELSE r2
    IN  IF child.func.kind = "Attribute" /\ child.func.attr \in MutationMethods
        THEN [r3 EXCEPT !.methods_called =
                 AppendUnique(@, <<".">> \o child.func.attr \o <<"()">>)]
        ELSE r3

\* lines 588-593: the first suffix the attribute name ends with, 0 when none
SuffixIndex(attr_name) ==
    LET hits == {k \in 1..Len(LCM_PROPERTY_SUFFIXES) :
                    /\ Len(attr_name) > 1
                    /\ attr_name[Len(attr_name)] = LCM_PROPERTY_SUFFIXES[k][1]}
    IN  IF hits = {} THEN 0 ELSE Min(hits)

\* an attribute node recorded under its bare name, whatever it ends with
ScanAttributeUndecorated(result, child) ==
    [result EXCEPT !.properties_accessed = AppendUnique(@, child.attr)]

\* lines 585-607: what an attribute node adds
ScanAttribute(result, child) ==
    LET attr_name == child.attr
        k == SuffixIndex(attr_name)
        r1 == IF k # 0
              THEN [result EXCEPT !.properties_accessed =
                      AppendUnique(@, attr_name \o <<" (", LCM_PROPERTY_SUFFIXES[k][2], ")">>)]
              ELSE result
        r2 == IF attr_name \in PropertyAllowList
              THEN [r1 EXCEPT !.properties_accessed = AppendUnique(@, attr_name)]
              ELSE r1
    IN  IF attr_name \in MultiStringMethods
        THEN [r2 EXCEPT !.methods_called = AppendUnique(@, <<".">> \o attr_name \o <<"()">>)]
        ELSE r2

\* the body of the loop over ast.walk(node) for one node (lines 539-607)
ScanStep(result, child, param_names) ==
    LET r0 == IF child.kind = "Call" /\ param_names # {}
              THEN [result EXCEPT !.param_usage = TrackParamUsage(@, child, param_names)]
              ELSE result
        r1 == IF child.kind = "Call" THEN ScanCall(r0, child) ELSE r0
    IN  IF child.kind = "Attribute" THEN ScanAttribute(r1, child) ELSE r1

\* _get_default_value_str
GetDefaultValueStr(default) ==
    CASE default.kind = "Constant" ->
            IF default.value.t = "str" THEN <<"\"", default.value.v, "\"">>
            ELSE <<default.value.v>>
      [] default.kind = "Name" -> <<default.id>>
      [] OTHER -> <<"[]">>

\* _extract_default_transformations
ExtractDefaultTransformations(node) ==
    LET offset == Len(node.args) - Len(node.defaults)
        note(i) == LET arg_index == offset + i
                       param_name == node.args[arg_index].arg
                       default_val == GetDefaultValueStr(node.defaults[i])
                   IN  IF arg_index >= 1 /\ arg_index <= Len(node.args)
                          /\ param_name # "self" /\ default_val # <<>>
                       THEN << [type |-> "default_value", param |-> param_name,
                                default |-> default_val] >>
                       ELSE <<>>
        RECURSIVE notes(_)
        notes(i) == IF i > Len(node.defaults) THEN <<>> ELSE note(i) \o notes(i + 1)
    IN  notes(1)

\* ast.unparse(node) of the function definition
RECURSIVE UnparseStmts(_)
UnparseStmts(stmts) ==
    IF stmts = <<>> THEN [ok |-> TRUE, text |-> <<>>]
    ELSE LET h == Unparse(Head(stmts))
             t == UnparseStmts(Tail(stmts))
         IN  [ok |-> h.ok /\ t.ok, text |-> <<"\n">> \o h.text \o t.text]

UnparseFunction(node) ==
    LET b == UnparseStmts(node.body)
    IN  [ok |-> b.ok,
         text |-> <<"def ">> \o node.name \o <<"(">>
                  \o [i \in 1..Len(node.args) |-> node.args[i].arg] \o <<"):">> \o b.text]

\* TRANSFORMATION_PATTERNS["hvo_resolution"], ["ws_default"], ["type_conversion"]
HvoPatterns == << <<"GetObject">>, <<"__", "GetObject">>, <<"ObjectOrId">>,
                  <<"GetLexEntry">>, <<"GetSense">> >>
WsPatterns == << <<"WSHandle">>, <<"__", "WSHandle">>, <<"DefaultVernacularWs">>,
                 <<"DefaultAnalysisWs">> >>
TypePatterns == << <<"int", "(">>, <<"str", "(">>, <<"bool", "(">>, <<"list", "(">>,
                   <<"ITsString", "(">> >>

\* the first pattern of the list that occurs in source, as a one-note list
FirstPatternNote(patterns, source, type, description) ==
    LET hits == {k \in 1..Len(patterns) : Occurs(patterns[k], source)}
    IN  IF hits = {} THEN <<>>
        ELSE << [type |-> type, pattern |-> patterns[Min(hits)],
                 description |-> description] >>

\* the type-conversion loop with a break after the first pattern that occurs
FirstTypePatternNote(patterns, source, k) ==
    LET hits == {j \in k..Len(patterns) : Occurs(patterns[j], source)}
    IN  IF hits = {} THEN <<>>
        ELSE << [type |-> "type_conversion", pattern |-> <<patterns[Min(hits)][1]>>,
                 description |-> <<"Converts to ", patterns[Min(hits)][1]>>] >>

\* one note for every pattern of the list that occurs in source (no break)
RECURSIVE EveryPatternNote(_, _, _)
EveryPatternNote(patterns, source, k) ==
    IF k > Len(patterns) THEN <<>>
    ELSE (IF Occurs(patterns[k], source)
          THEN << [type |-> "type_conversion", pattern |-> <<patterns[k][1]>>,
                   description |-> <<"Converts to ", patterns[k][1]>>] >>
          ELSE <<>>) \o EveryPatternNote(patterns, source, k + 1)

\* _detect_code_transformations
DetectCodeTransformations(node) ==
    LET u == UnparseFunction(node)
        source == IF u.ok THEN u.text ELSE <<>>
        nullNote ==
            IF Occurs(<<" or ", "''">>, source)
            THEN << [type |-> "null_coalesce", pattern |-> <<"or ''">>,
                     description |-> <<"Returns empty string instead of None">>] >>
            ELSE IF \/ Occurs(<<" or ", "None">>, source)
                    \/ (Occurs(<<" if ">>, source) /\ Occurs(<<" else ">>, source))
            THEN << [type |-> "conditional",
                     description |-> <<"Conditional logic for handling special cases">>] >>
            ELSE <<>>
    IN  IF source = <<>> THEN <<>>
        ELSE FirstPatternNote(HvoPatterns, source, "hvo_resolution",
                              <<"Resolves HVO (integer) to object if needed">>)
             \o FirstPatternNote(WsPatterns, source, "ws_default",
                                 <<"Applies default writing system if not specified">>)
             \o nullNote
             \o EveryPatternNote(TypePatterns, source, 1)

\* lines 512-533: the result before the walk
ScanStart(node) ==
    [factories_used |-> <<>>, repositories_used |-> <<>>, properties_accessed |-> <<>>,
     methods_called |-> <<>>, utilities_used |-> <<>>, mapping_type |-> "pure_python",
     param_usage |-> <<>>, transformations |-> ExtractDefaultTransformations(node)]

\* lines 609-617: the result after the walk
ScanEnd(result, node) ==
    LET r == [result EXCEPT !.transformations = @ \o DetectCodeTransformations(node)]
    IN  [r EXCEPT !.mapping_type = ClassifyMappingType(r)]

RECURSIVE ScanNodes(_, _, _)
ScanNodes(result, nodes, param_names) ==
    IF nodes = <<>> THEN result
    ELSE ScanNodes(ScanStep(result, Head(nodes), param_names), Tail(nodes), param_names)

\* extract_lcm_calls
ExtractLcmCalls(node) ==
    ScanEnd(ScanNodes(ScanStart(node), Walk(node), ParamNamesOf(node)), node)

\* identifiers of the scanned bodies
ILexEntryFactory == <<"I", "LexEntry", "Factory">>
ILexSenseFactory == <<"I", "LexSense", "Factory">>
ILexEntryRepository == <<"I", "LexEntry", "Repository">>
IFooFactoryRepository == <<"I", "Foo", "Factory", "Repository">>

\* the three call-target forms and a target outside them
CallTargets ==
    { AttributeNode(NameNode(<<"ServiceLocator">>), <<"GetService">>),
      NameNode(<<"GetInstance">>),
      AttributeNode(NameNode(<<"project">>), <<"ObjectsIn">>),
      AttributeNode(NameNode(<<"project">>), <<"Lookup">>) }

CallArguments == { NameNode(ILexEntryFactory), NameNode(ILexEntryRepository) }

\* the statements a scanned body is made of
ScanStatements ==
    { CallNode(f, <<a>>) : f \in CallTargets, a \in CallArguments }
    \cup
    { CallNode(AttributeNode(DeepNode, <<"GetService">>), <<NameNode(ILexEntryFactory)>>),
      CallNode(NameNode(<<"GetService">>), <<NameNode(IFooFactoryRepository)>>),
      CallNode(NameNode(<<"GetService">>), <<NameNode(<<"ws">>), NameNode(ILexSenseFactory)>>),
      CallNode(NameNode(<<"GetService">>),
               <<AttributeNode(NameNode(<<"SIL">>), ILexEntryFactory)>>),
      AttributeNode(NameNode(<<"entry">>), <<"Senses", "OS">>),
      AttributeNode(AttributeNode(NameNode(<<"entry">>), <<"LexemeForm", "OA">>), <<"Form">>),
      CallNode(AttributeNode(NameNode(<<"TsStringUtils">>), <<"MakeString">>),
               <<NameNode(<<"text">>), NameNode(<<"ws">>)>>),
      CallNode(AttributeNode(NameNode(<<"TsStringUtils">>), <<"Concat">>),
               <<NameNode(<<"text">>)>>),
      CallNode(AttributeNode(AttributeNode(NameNode(<<"entry">>), <<"Senses", "OS">>),
                             <<"Add">>), <<NameNode(<<"sense">>)>>),
      CallKwNode(NameNode(<<"int">>), <<>>, <<[arg |-> "x", value |-> NameNode(<<"ws">>)]>>),
      CallNode(NameNode(<<"str">>), <<NameNode(<<"ws">>)>>),
      OrNode(AttributeNode(NameNode(<<"entry">>), <<"Gloss">>),
             [kind |-> "Constant", text |-> "''"]),
      OrNode(AttributeNode(NameNode(<<"entry">>), <<"Gloss">>),
             [kind |-> "Constant", text |-> "None"]),
      CallNode(AttributeNode(NameNode(<<"self">>), <<"__", "GetObject">>),
               <<NameNode(<<"hvo">>)>>),
      CallNode(AttributeNode(NameNode(<<"self">>), <<"__", "WSHandle">>),
               <<NameNode(<<"ws">>)>>) }

NoAnnotation == [kind |-> "none", id |-> ""]

\* the parameter lists of the scanned functions: (self), (self, ws), (self, ws=None)
ScanSignatures ==
    { [args |-> <<[arg |-> "self", annotation |-> NoAnnotation]>>, defaults |-> <<>>],
      [args |-> <<[arg |-> "self", annotation |-> NoAnnotation],
                  [arg |-> "ws", annotation |-> NoAnnotation]>>, defaults |-> <<>>],
      [args |-> <<[arg |-> "self", annotation |-> NoAnnotation],
                  [arg |-> "ws", annotation |-> NoAnnotation]>>,
       defaults |-> <<[kind |-> "Constant", value |-> PyNone, id |-> ""]>>] }

ScanFunctionDefs ==
    { [name |-> <<"Find", "Entry">>, args |-> s.args, defaults |-> s.defaults, body |-> b] :
        s \in ScanSignatures,
        b \in UNION { SeqOfLen(ScanStatements, n) : n \in 0..MaxStmts } }

ScanInit ==
    /\ scan_fn \in ScanFunctionDefs
    /\ scan_todo = <<>>
    /\ scan_result = Idle
    /\ pc = "start"
    /\ ClassifyIdle /\ SigIdle /\ DocIdle /\ CategoryIdle /\ ReportIdle /\ AuxIdle

\* lines 512-536: the empty result and the defaults' notes
ScanBegin ==
    /\ pc = "start"
    /\ pc' = "walk"
    /\ scan_result' = ScanStart(scan_fn)
    /\ scan_todo' = scan_fn.body
    /\ UNCHANGED <<scan_fn, classifyVars, sigVars, docVars, categoryVars, reportVars, auxVars>>

\* one iteration of `for child in ast.walk(node)`: the head of the queue is taken,
\* its children are queued, and the loop body runs on it
ScanNode ==
    /\ pc = "walk"
    /\ scan_todo # <<>>
    /\ scan_result' = ScanStep(scan_result, Head(scan_todo), ParamNamesOf(scan_fn))
    /\ scan_todo' = Tail(scan_todo) \o Children(Head(scan_todo))
    /\ UNCHANGED <<pc, scan_fn, classifyVars, sigVars, docVars, categoryVars, reportVars, auxVars>>

\* lines 609-617: the code-level notes and the classification
ScanFinish ==
    /\ pc = "walk"
    /\ scan_todo = <<>>
    /\ pc' = "done"
    /\ scan_result' = ScanEnd(scan_result, scan_fn)
    /\ UNCHANGED <<scan_todo, scan_fn, classifyVars, sigVars, docVars, categoryVars, reportVars, auxVars>>

ScanNext == ScanBegin \/ ScanNode \/ ScanFinish

SpecScan == ScanInit /\ [][ScanNext]_vars


\* the call nodes of the scanned function
CallsOf(node) == {c \in Range(Walk(node)) : c.kind = "Call"}

\* the bare-identifier positional arguments of a call
NameArgs(call) == {call.args[i].id : i \in {j \in 1..Len(call.args) : call.args[j].kind = "Name"}}

\* id reads I<Name>Factory / I<Name>Repository: I, a name, then the word at the end
NamedLike(id, word) == Len(id) >= 3 /\ id[1] = "I" /\ id[Len(id)] = word

\* the text of the call's target contains the word
TargetHas(call, word) == Occurs(<<word>>, Text(call.func))

\* ast.unparse does not raise on the call's target
TargetUnparses(call) == ~TooDeep(call.func)

(***************************************************************************)
(* C10 as stated: for each of the three call-target forms (GetService,     *)
(* GetInstance, ObjectsIn), a positional argument named I<Name>Factory is  *)
(* recorded as a factory use and one named I<Name>Repository as a          *)
(* repository use.                                                         *)
(***************************************************************************)
C10_AllFormsRecordBoth ==
    pc = "done" =>
        \A call \in CallsOf(scan_fn) :
            (TargetHas(call, "GetService") \/ TargetHas(call, "GetInstance")
               \/ TargetHas(call, "ObjectsIn")) =>
                \A id \in NameArgs(call) :
                    /\ NamedLike(id, "Factory") => id \in Range(scan_result.factories_used)
                    /\ NamedLike(id, "Repository") =>
                          id \in Range(scan_result.repositories_used)

(***************************************************************************)
(* C10 amended: for a call whose target can be unparsed, a GetService or   *)
(* GetInstance target records an argument named I<Name>Factory as a        *)
(* factory use and an argument named I<Name>Repository, unless its name    *)
(* already begins like a factory's (I<Name>Factory...), as a repository    *)
(* use; an ObjectsIn target records an argument named I<Name>Repository as *)
(* a repository use and records no factory use.  Factory uses come from    *)
(* GetService / GetInstance calls only.                                    *)
(***************************************************************************)
C10_ServiceFormsRecordBoth ==
    pc = "done" =>
        /\ \A call \in CallsOf(scan_fn) : \A id \in NameArgs(call) :
              /\ (TargetUnparses(call)
                  /\ (TargetHas(call, "GetService") \/ TargetHas(call, "GetInstance"))) =>
                    /\ NamedLike(id, "Factory") => id \in Range(scan_result.factories_used)
                    /\ (NamedLike(id, "Repository")
                        /\ ~\E k \in 3..(Len(id) - 1) : id[k] = "Factory") =>
                          id \in Range(scan_result.repositories_used)
              /\ (TargetUnparses(call) /\ TargetHas(call, "ObjectsIn")) =>
                    (NamedLike(id, "Repository") =>
                          id \in Range(scan_result.repositories_used))
        /\ \A id \in Range(scan_result.factories_used) :
              \E call \in CallsOf(scan_fn) :
                  /\ TargetHas(call, "GetService") \/ TargetHas(call, "GetInstance")
                  /\ id \in NameArgs(call)

\* a GetInstance(ILexEntryFactory) call and an ObjectsIn(ILexEntryRepository) call,
\* both recorded
C10_Witness ==
    /\ pc = "done"
    /\ \E call \in CallsOf(scan_fn) :
          call.func.kind = "Name" /\ call.func.id = <<"GetInstance">>
          /\ ILexEntryFactory \in NameArgs(call)
    /\ \E call \in CallsOf(scan_fn) :
          TargetHas(call, "ObjectsIn") /\ ILexEntryRepository \in NameArgs(call)
    /\ scan_result.factories_used = <<ILexEntryFactory>>
    /\ scan_result.repositories_used = <<ILexEntryRepository>>


(***************************************************************************)
(* Utility uses (lines 566-574).                                           *)
(***************************************************************************)

\* the calls of a function whose target is <known utility class>.<method>
UtilityCalls(node) ==
    {c \in CallsOf(node) : /\ c.func.kind = "Attribute"
                           /\ c.func.value.kind = "Name"
                           /\ c.func.value.id \in LCM_UTILITY_CLASSES}

\* "Class.method" as the scanner writes it
UtilityEntry(call) == call.func.value.id \o <<".">> \o call.func.attr

(***************************************************************************)
(* C11 as stated: a call is recorded as a utility use only when its        *)
(* receiver is a known utility class and its method is in that class's     *)
(* method list; an unlisted method of a known class is not recorded.       *)
(***************************************************************************)
C11_OnlyListedMethods ==
    pc = "done" =>
        \A i \in 1..Len(scan_result.utilities_used) :
            \E c \in LCM_UTILITY_CLASSES : \E m \in LCM_UTILITIES[c] :
                scan_result.utilities_used[i] = c \o <<".">> \o m

(***************************************************************************)
(* C11 amended: a call is recorded as a utility use exactly when its       *)
(* target is an attribute of a bare name that is a known utility class,    *)
(* whatever the method; the entry reads Class.method.                      *)
(***************************************************************************)
C11_AnyMethodOfUtilityClass ==
    pc = "done" =>
        Range(scan_result.utilities_used) = {UtilityEntry(c) : c \in UtilityCalls(scan_fn)}

\* a body calling TsStringUtils.Concat, which LCM_UTILITIES does not list, and the
\* call recorded
C11_Witness ==
    /\ pc = "done"
    /\ \E c \in UtilityCalls(scan_fn) : c.func.attr \notin LCM_UTILITIES[c.func.value.id]
    /\ \E i \in 1..Len(scan_result.utilities_used) :
          scan_result.utilities_used[i] = <<"TsStringUtils", ".", "Concat">>

(***************************************************************************)
(* Code-level transformation notes (lines 438-495).                        *)
(***************************************************************************)

\* the notes _detect_code_transformations contributed: those after the notes of the
\* parameter defaults
CodeNotes ==
    SelectSeq(scan_result.transformations, LAMBDA t : t.type # "default_value")

\* the family of a note, in the order the function tests them; the "conditional"
\* note comes from the elif of the null-coalescing test
FamilyRank(type) ==
    CASE type = "hvo_resolution" -> 1
      [] type = "ws_default" -> 2
      [] type \in {"null_coalesce", "conditional"} -> 3
      [] type = "type_conversion" -> 4

\* the source text the notes are read from, empty when ast.unparse raises
ScannedSource ==
    LET u == UnparseFunction(scan_fn) IN IF u.ok THEN u.text ELSE <<>>

\* the conversions of TRANSFORMATION_PATTERNS["type_conversion"] occurring in the
\* source, in list order, as the notes name them
ConversionsIn(source) ==
    LET hits == SelectSeq([k \in 1..Len(TypePatterns) |-> k],
                          LAMBDA k : Occurs(TypePatterns[k], source))
    IN  [i \in 1..Len(hits) |-> <<TypePatterns[hits[i]][1]>>]

(***************************************************************************)
(* C12 as stated: the code-level notes of a function body hold at most one *)
(* entry per family (handle resolution, writing-system defaulting,         *)
(* null-coalescing, type coercion), in that family order.                  *)
(***************************************************************************)
C12_OnePerFamilyInOrder ==
    pc = "done" =>
        \A i, j \in 1..Len(CodeNotes) :
            i < j => FamilyRank(CodeNotes[i].type) < FamilyRank(CodeNotes[j].type)

(***************************************************************************)
(* C12 amended: the notes appear in family order with at most one          *)
(* handle-resolution note, at most one writing-system note and at most one *)
(* note from the null-coalescing test (null_coalesce or conditional); the  *)
(* type-coercion family has one note for every listed conversion that      *)
(* occurs in the source, in list order.                                    *)
(***************************************************************************)
C12_OnePerFamilyExceptCoercions ==
    pc = "done" =>
        LET coercions == SelectSeq(CodeNotes, LAMBDA t : t.type = "type_conversion")
        IN  /\ \A i, j \in 1..Len(CodeNotes) :
                  i < j =>
                    /\ FamilyRank(CodeNotes[i].type) <= FamilyRank(CodeNotes[j].type)
                    /\ FamilyRank(CodeNotes[i].type) = FamilyRank(CodeNotes[j].type)
                          => CodeNotes[i].type = "type_conversion"
            /\ [i \in 1..Len(coercions) |-> coercions[i].pattern]
                  = ConversionsIn(ScannedSource)

\* a body with int(x=ws) and str(ws): two type_conversion notes
C12_Witness ==
    /\ pc = "done"
    /\ Occurs(<<"int", "(">>, ScannedSource) /\ Occurs(<<"str", "(">>, ScannedSource)
    /\ Len(SelectSeq(CodeNotes, LAMBDA t : t.type = "type_conversion")) = 2

(***************************************************************************)
(* Duplicates in the lists of the summary (lines 544-607).                 *)
(***************************************************************************)

NoDuplicates(list) == \A i, j \in 1..Len(list) : list[i] = list[j] => i = j

\* the attribute nodes of the scanned function, in walk order
AttributesOf(node) == SelectSeq(Walk(node), LAMBDA n : n.kind = "Attribute")

\* the attribute name an entry of properties_accessed was written for
EntryName(entry) ==
    IF Len(entry) > 3 /\ entry[Len(entry) - 2] = " ("
    THEN SubSeq(entry, 1, Len(entry) - 3)
    ELSE entry

\* the entries of properties_accessed written for one attribute name
EntriesFor(attr_name) ==
    {i \in 1..Len(scan_result.properties_accessed) :
        EntryName(scan_result.properties_accessed[i]) = attr_name}

\* the entry with the decoded suffix
Decorated(attr_name) ==
    attr_name \o <<" (", LCM_PROPERTY_SUFFIXES[SuffixIndex(attr_name)][2], ")">>

(***************************************************************************)
(* C13 as stated: the five lists of a summary are duplicate-free, and an   *)
(* attribute name contributes at most one entry to properties_accessed     *)
(* however often it is accessed.                                           *)
(***************************************************************************)
C13_OneEntryPerAttributeName ==
    pc = "done" =>
        /\ NoDuplicates(scan_result.factories_used)
        /\ NoDuplicates(scan_result.repositories_used)
        /\ NoDuplicates(scan_result.properties_accessed)
        /\ NoDuplicates(scan_result.methods_called)
        /\ NoDuplicates(scan_result.utilities_used)
        /\ \A n \in Range(AttributesOf(scan_fn)) : Cardinality(EntriesFor(n.attr)) <= 1

(***************************************************************************)
(* C13 amended: the five lists are duplicate-free as lists of texts; an    *)
(* attribute name contributes one entry per form it qualifies for: the     *)
(* suffix-decorated entry when it ends in a known suffix, and the plain    *)
(* entry when it is on the allow-list, so a name that is both              *)
(* (LexemeFormOA, MorphTypeRA, PartOfSpeechRA) contributes two.            *)
(***************************************************************************)
C13_OneEntryPerForm ==
    pc = "done" =>
        /\ NoDuplicates(scan_result.factories_used)
        /\ NoDuplicates(scan_result.repositories_used)
        /\ NoDuplicates(scan_result.properties_accessed)
        /\ NoDuplicates(scan_result.methods_called)
        /\ NoDuplicates(scan_result.utilities_used)
        /\ Range(scan_result.properties_accessed) =
              {Decorated(n.attr) : n \in {a \in Range(AttributesOf(scan_fn)) :
                                             SuffixIndex(a.attr) # 0}}
              \cup {n.attr : n \in {a \in Range(AttributesOf(scan_fn)) :
                                       a.attr \in PropertyAllowList}}
        /\ \A n \in Range(AttributesOf(scan_fn)) :
              Cardinality(EntriesFor(n.attr)) =
                  (IF SuffixIndex(n.attr) # 0 THEN 1 ELSE 0)
                  + (IF n.attr \in PropertyAllowList THEN 1 ELSE 0)

\* LexemeFormOA accessed twice in the body: one decorated and one plain entry
C13_Witness ==
    /\ pc = "done"
    /\ Len(SelectSeq(AttributesOf(scan_fn), LAMBDA n : n.attr = <<"LexemeForm", "OA">>)) = 2
    /\ scan_result.properties_accessed =
          << <<"Form">>, <<"LexemeForm", "OA", " (", "OwningAtomic", ")">>,
             <<"LexemeForm", "OA">> >>

(***************************************************************************)
(* The SensesOS example.                                                   *)
(***************************************************************************)
\* the body reads the property SensesOS of a name and holds no call and no
\* other attribute
ReadsOnlySensesOS(node) ==
    /\ \E n \in Range(Walk(node)) : n.kind = "Attribute"
    /\ \A n \in Range(Walk(node)) :
          \/ n.kind = "Name"
          \/ n.kind = "Attribute" /\ n.attr = <<"Senses", "OS">>

\* C21: a method whose body accesses the property SensesOS and nothing else
\* of the host library is classified direct, and its properties_accessed is
\* exactly ['SensesOS (OwningSequence)']
C21_SensesOSIsDirect ==
    pc = "done" /\ ReadsOnlySensesOS(scan_fn) =>
        /\ scan_result.mapping_type = "direct"
        /\ scan_result.properties_accessed = << <<"Senses", "OS", " (", "OwningSequence", ")">> >>

\* the scan of `entry.SensesOS` in a method of (self, ws=None) has ended
C21_Witness ==
    /\ pc = "done"
    /\ ReadsOnlySensesOS(scan_fn)
    /\ scan_fn.body = <<AttributeNode(NameNode(<<"entry">>), <<"Senses", "OS">>)>>
    /\ scan_fn.defaults # <<>>
    /\ scan_result.mapping_type = "direct"

(***************************************************************************)
(* Class category: the if/elif chain of analyze_class (lines 795-816).     *)
(* A module path is a sequence of tokens; every topic keyword is one token *)
(* and no two tokens of a path join into a keyword.                        *)
(***************************************************************************)
\* most tokens of a module path
MaxPathLen == 2

\* a plausible slip: the first two branches of the chain exchanged
ClassCategoryGrammarFirst(path) ==
    IF Occurs(<<"Grammar">>, path) THEN "grammar"
    ELSE IF Occurs(<<"Lexicon">>, path) THEN "lexicon"
    ELSE IF Occurs(<<"TextsWords">>, path) THEN "texts"
    ELSE IF Occurs(<<"Notebook">>, path) THEN "notebook"
    ELSE IF Occurs(<<"Lists">>, path) THEN "lists"
    ELSE IF Occurs(<<"System">>, path) THEN "system"
    ELSE IF Occurs(<<"Scripture">>, path) THEN "scripture"
    ELSE IF Occurs(<<"Discourse">>, path) THEN "discourse"
    ELSE IF Occurs(<<"Reversal">>, path) THEN "reversal"
    ELSE IF Occurs(<<"Wordform">>, path) THEN "wordform"
    ELSE "general"

\* lines 796-816
ClassCategory(path) ==
    IF Occurs(<<"Lexicon">>, path) THEN "lexicon"
    ELSE IF Occurs(<<"Grammar">>, path) THEN "grammar"
    ELSE IF Occurs(<<"TextsWords">>, path) THEN "texts"
    ELSE IF Occurs(<<"Notebook">>, path) THEN "notebook"
    ELSE IF Occurs(<<"Lists">>, path) THEN "lists"
    ELSE IF Occurs(<<"System">>, path) THEN "system"
    ELSE IF Occurs(<<"Scripture">>, path) THEN "scripture"
    ELSE IF Occurs(<<"Discourse">>, path) THEN "discourse"
    ELSE IF Occurs(<<"Reversal">>, path) THEN "reversal"
    ELSE IF Occurs(<<"Wordform">>, path) THEN "wordform"
    ELSE "general"

\* the tokens module paths are made of: the ten keywords, the separator, a
\* word that is no keyword and a keyword in the wrong case
PathTokens ==
    { "Lexicon", "Grammar", "TextsWords", "Notebook", "Lists", "System", "Scripture",
      "Discourse", "Reversal", "Wordform", "/", "Operations", "lexicon" }

ModulePaths == UNION { SeqOfLen(PathTokens, n) : n \in 1..MaxPathLen }

CategoryInit ==
    /\ module_path \in ModulePaths
    /\ category = ""
    /\ pc = "start"
    /\ ClassifyIdle /\ SigIdle /\ DocIdle /\ ScanIdle /\ ReportIdle /\ AuxIdle

\* analyze_class determines the category of a class from its module path
DeriveCategory ==
    /\ pc = "start"
    /\ pc' = "done"
    /\ category' = ClassCategory(module_path)
    /\ UNCHANGED <<module_path, classifyVars, sigVars, docVars, scanVars, reportVars, auxVars>>

SpecCategory == CategoryInit /\ [][DeriveCategory]_vars

\* the fixed ordered keyword list with the category of each keyword
KeywordList ==
    << <<"Lexicon", "lexicon">>, <<"Grammar", "grammar">>, <<"TextsWords", "texts">>,
       <<"Notebook", "notebook">>, <<"Lists", "lists">>, <<"System", "system">>,
       <<"Scripture", "scripture">>, <<"Discourse", "discourse">>,
       <<"Reversal", "reversal">>, <<"Wordform", "wordform">> >>

\* the positions in the keyword list of the keywords occurring in the path
KeywordHits(path) ==
    {i \in 1..Len(KeywordList) :
        \E k \in 1..Len(path) : path[k] = KeywordList[i][1]}

\* C9: every class gets exactly one category: that of the first keyword of the
\* ordered list that occurs in its module path, "general" when none occurs, and
\* deriving it again from the same path gives the same category
C9_FirstListedKeyword ==
    pc = "done" =>
        /\ KeywordHits(module_path) = {} => category = "general"
        /\ KeywordHits(module_path) # {} =>
              category = KeywordList[Min(KeywordHits(module_path))][2]
        /\ category = ClassCategory(module_path)

\* a path naming Grammar before Lexicon is categorised by the list order
C9_Witness ==
    /\ pc = "done"
    /\ module_path = <<"Grammar", "Lexicon">>
    /\ category = "lexicon"


(***************************************************************************)
(* Whole-codebase fold: analyze_method, analyze_class, analyze_python_file,*)
(* analyze_flexlibs2 and analyze_flexlibs_stable.                          *)
(*                                                                         *)
(* A name is a sequence of tokens; a leading underscore is a token of its  *)
(* own, so name.startswith('_') is name[1] = "_".  A Python dict is the    *)
(* sequence of its [key, value] items in insertion order.  A call that     *)
(* raises has the outcome [kind |-> "raise"], which the callers pass on up *)
(* to the try/except of analyze_python_file.                               *)
(***************************************************************************)
\* most files of the analysed directory
MaxFiles == 2

\* dict[key] = value: a present key keeps its position
DictPut(dict, key, value) ==
    IF \E i \in 1..Len(dict) : dict[i].key = key
    THEN [i \in 1..Len(dict) |->
            IF dict[i].key = key THEN [key |-> key, value |-> value] ELSE dict[i]]
    ELSE Append(dict, [key |-> key, value |-> value])

DictKeys(dict) == [i \in 1..Len(dict) |-> dict[i].key]

DictGet(dict, key) == (CHOOSE item \in Range(dict) : item.key = key).value

\* [x for x in s if x.kind == kind]
RECURSIVE OfKind(_, _)
OfKind(s, kind) ==
    IF s = <<>> THEN <<>>
    ELSE (IF Head(s).kind = kind THEN <<Head(s)>> ELSE <<>>) \o OfKind(Tail(s), kind)

\* the names of the analysed methods in code-point order (upper-case letters
\* sort before the underscore), the order sorted() compares them in
NameOrder ==
    << <<"Create">>, <<"Find", "Entry">>, <<"Get", "Gloss">>, <<"Get", "Projects">>,
       <<"Lexicon", "Get", "Headword">>, <<"Lexicon", "Number", "Of", "Entries">>,
       <<"Senses">>, <<"Set", "Ws">>, <<"Text", "Get", "Title">>,
       <<"_", "_init__">>, <<"_", "helper">>, <<"_", "resolve">> >>

NameRank(name) == CHOOSE i \in 1..Len(NameOrder) : NameOrder[i] = name

\* sorted(methods, key=lambda m: m["name"]): a stable sort
RECURSIVE SortedByName(_)
SortedByName(methods) ==
    IF methods = <<>> THEN <<>>
    ELSE LET rest == SortedByName(SubSeq(methods, 1, Len(methods) - 1))
             m == methods[Len(methods)]
             before == {i \in 1..Len(rest) : NameRank(rest[i].name) <= NameRank(m.name)}
         IN  Pick(rest, before, 1) \o <<m>> \o Pick(rest, (1..Len(rest)) \ before, 1)

\* '__init__'
InitName == <<"_", "_init__">>

\* an annotation on which ast.unparse raises RecursionError: a subscript
\* around an expression nested too deeply
DeepAnnotation == [kind |-> "Subscript", id |-> "List[1 + 1 + ... + 1]"]

\* line 279: ast.unparse(arg.annotation) is not guarded
SignatureRaises(node) ==
    \E i \in 1..Len(node.args) :
        node.args[i].arg # "self" /\ node.args[i].annotation = DeepAnnotation

\* a plausible slip: every name with a leading underscore skipped
IsSkippedWithInit(node) == node.name[1] = "_"

\* line 690: private methods are skipped, except __init__
IsSkipped(node) == node.name[1] = "_" /\ node.name # InitName

\* lines 722-738: the return annotation, else the docstring's return type
ReturnType(node) ==
    IF node.returns.kind = "Name" THEN node.returns.id ELSE ""

\* lines 750-765: the method_info of a method with the given signature and
\* host-call summary
MethodInfo(node, signature, lcm_calls) ==
    [kind |-> "method",
     name |-> node.name,
     signature |-> signature.params,
     parameters |-> signature.param_details,
     return_type |-> ReturnType(node),
     is_property |-> node.decorator = "property",
     lcm_mapping |-> lcm_calls]

\* analyze_method: None, a raise, or the method_info
AnalyzeMethod(node) ==
    IF IsSkipped(node) THEN [kind |-> "none"]
    ELSE IF SignatureRaises(node) THEN [kind |-> "raise"]
    ELSE MethodInfo(node, GetFunctionSignature(node), ExtractLcmCalls(node))

\* imp["module"].startswith("SIL.LCModel")
LcmDependencies(lcm_imports) ==
    LET idx == {i \in 1..Len(lcm_imports) : lcm_imports[i].module[1] = "SIL.LCModel"}
    IN  [i \in 1..Len(Pick(lcm_imports, idx, 1)) |-> Pick(lcm_imports, idx, 1)[i].name]

\* f"flexlibs.code.{module_path.replace('/', '.')}"
Namespace(path) ==
    <<"flexlibs.code.">> \o [i \in 1..Len(path) |-> IF path[i] = "/" THEN "." ELSE path[i]]

\* a plausible slip: the property-decorated members left among the methods as
\* well
ClassInfoWithPropertiesAsMethods(node, path, lcm_imports, outcomes) ==
    LET infos == OfKind(outcomes, "method")
        props == {i \in 1..Len(infos) : infos[i].is_property}
        cat == ClassCategory(path)
    IN  IF \E i \in 1..Len(outcomes) : outcomes[i].kind = "raise"
        THEN [kind |-> "raise"]
        ELSE [kind |-> "class",
              name |-> node.name,
              namespace |-> Namespace(path),
              source_file |-> path,
              category |-> cat,
              methods |-> SortedByName(infos),
              properties |-> Pick(infos, props, 1),
              lcm_dependencies |-> LcmDependencies(lcm_imports),
              tags |-> IF Occurs(<<"Operations">>, node.name)
                       THEN <<cat, "operations">> ELSE <<cat>>]

\* lines 783-837: the class_info built from the outcomes of analyze_method on
\* the functions of the class body, or the raise of one of them
ClassInfo(node, path, lcm_imports, outcomes) ==
    LET infos == OfKind(outcomes, "method")
        props == {i \in 1..Len(infos) : infos[i].is_property}
        cat == ClassCategory(path)
    IN  IF \E i \in 1..Len(outcomes) : outcomes[i].kind = "raise"
        THEN [kind |-> "raise"]
        ELSE [kind |-> "class",
              name |-> node.name,
              namespace |-> Namespace(path),
              source_file |-> path,
              category |-> cat,
              methods |-> SortedByName(Pick(infos, (1..Len(infos)) \ props, 1)),
              properties |-> Pick(infos, props, 1),
              lcm_dependencies |-> LcmDependencies(lcm_imports),
              tags |-> IF Occurs(<<"Operations">>, node.name)
                       THEN <<cat, "operations">> ELSE <<cat>>]

\* analyze_class: a raise, or the class_info
AnalyzeClass(node, path, lcm_imports) ==
    ClassInfo(node, path, lcm_imports,
              [i \in 1..Len(node.body) |-> AnalyzeMethod(node.body[i])])

\* a plausible slip: the try/except put around the analysis of each class, so
\* that the classes analysed without a raise are kept
FileInfoKeepingAnalysed(file, classes) ==
    [kind |-> "file_info",
     module_path |-> file.path,
     classes |-> OfKind(classes, "class"),
     lcm_imports |-> file.lcm_imports]

\* lines 854-868: the file_info with the analysed classes, None when the
\* analysis of one of them raised
FileInfo(file, classes) ==
    IF \E i \in 1..Len(classes) : classes[i].kind = "raise"
    THEN [kind |-> "none"]
    ELSE [kind |-> "file_info",
          module_path |-> file.path,
          classes |-> classes,
          lcm_imports |-> file.lcm_imports]

\* a plausible slip: the try/except around ast.parse left out, so that the
\* classes read before the syntax error are kept
AnalyzePythonFileUnguarded(file) ==
    FileInfo(file, [i \in 1..Len(file.classes) |->
                      AnalyzeClass(file.classes[i], file.path, file.lcm_imports)])

\* analyze_python_file: the file_info, or None when the text does not parse or
\* the analysis of a class raises
AnalyzePythonFile(file) ==
    IF ~file.parses THEN [kind |-> "none"]
    ELSE FileInfo(file, [i \in 1..Len(file.classes) |->
                           AnalyzeClass(file.classes[i], file.path, file.lcm_imports)])

\* the categories a class or a method can get
AllCategories ==
    { "general", "lexicon", "grammar", "texts", "notebook", "lists", "system",
      "scripture", "discourse", "reversal", "wordform" }

MappingKinds == { "direct", "convenience", "composite", "pure_python" }

\* lines 884-910 and 1020-1048: the empty result; metadata.categories[cat] = 0
\* stands for a category that is no key of the dict yet
EmptyReport(type) ==
    LET metadata == [total_classes |-> 0, total_methods |-> 0, total_properties |-> 0,
                     methods_with_return_type |-> 0, files_analyzed |-> 0,
                     categories |-> [c \in AllCategories |-> 0],
                     lcm_interfaces_used |-> {},
                     mapping_types |-> [k \in MappingKinds |-> 0]]
    IN  IF type = "flexlibs2"
        THEN [metadata |-> metadata, entities |-> <<>>, categories |-> <<>>,
              lcm_mapping |-> <<>>]
        ELSE [metadata |-> [x \in DOMAIN metadata \cup {"total_functions"} |->
                               IF x = "total_functions" THEN 0 ELSE metadata[x]],
              entities |-> <<>>, categories |-> <<>>, lcm_mapping |-> <<>>,
              functions |-> <<>>]

\* lines 947-960: one lcm_mapping item for every method of the class
RECURSIVE AddMethodMappings(_, _, _)
AddMethodMappings(lcm_mapping, class_info, i) ==
    IF i > Len(class_info.methods) THEN lcm_mapping
    ELSE LET method == class_info.methods[i]
             lcm_info == method.lcm_mapping
         IN  AddMethodMappings(
                 DictPut(lcm_mapping, <<class_info.name, method.name>>,
                         [class |-> class_info.name,
                          method |-> method.name,
                          mapping_type |-> lcm_info.mapping_type,
                          factories_used |-> lcm_info.factories_used,
                          repositories_used |-> lcm_info.repositories_used,
                          properties_accessed |-> lcm_info.properties_accessed,
                          methods_called |-> lcm_info.methods_called,
                          utilities_used |-> lcm_info.utilities_used,
                          lcm_deps |-> class_info.lcm_dependencies]),
                 class_info, i + 1)

\* lines 922-960 (and 1103-1140): one class folded into the result
AddClass(result, class_info) ==
    LET methods == class_info.methods
        typed == {i \in 1..Len(methods) : methods[i].return_type # ""}
        mapped(k) == {i \in 1..Len(methods) : methods[i].lcm_mapping.mapping_type = k}
    IN  [result EXCEPT
            !.entities = DictPut(@, class_info.name, class_info),
            !.metadata.total_classes = @ + 1,
            !.metadata.total_methods = @ + Len(methods),
            !.metadata.total_properties = @ + Len(class_info.properties),
            !.metadata.methods_with_return_type = @ + Cardinality(typed),
            !.metadata.mapping_types =
                [k \in MappingKinds |-> @[k] + Cardinality(mapped(k))],
            !.metadata.categories[class_info.category] = @ + 1,
            !.metadata.lcm_interfaces_used = @ \cup Range(class_info.lcm_dependencies),
            !.lcm_mapping = AddMethodMappings(@, class_info, 1)]

RECURSIVE AddClasses(_, _)
AddClasses(result, classes) ==
    IF classes = <<>> THEN result
    ELSE AddClasses(AddClass(result, Head(classes)), Tail(classes))

\* py_file.name: the path after its last separator, with the suffix
FileName(path) ==
    LET seps == {i \in 1..Len(path) : path[i] = "/"}
        from == IF seps = {} THEN 1 ELSE (CHOOSE i \in seps : \A j \in seps : j <= i) + 1
    IN  SubSeq(path, from, Len(path)) \o <<".py">>

\* py_file.name.startswith("__"); the only such name here is __init__.py
IsDunderFile(file) == FileName(file.path)[1] = "__init__"

\* lines 918-960: what analyze_flexlibs2 does with the file_info of one file
FoldFlexlibs2(result, info) ==
    IF info.kind = "file_info" /\ info.classes # <<>>
    THEN AddClasses([result EXCEPT !.metadata.files_analyzed = @ + 1], info.classes)
    ELSE result

\* the prefixes of get_category_from_method_name, in dictionary order
MethodPrefixes ==
    << <<"Lexicon", "lexicon">>, <<"Text", "texts">>, <<"Reversal", "reversal">>,
       <<"Wordform", "wordform">>, <<"WS", "system">>, <<"Object", "system">>,
       <<"Get", "general">>, <<"Build", "general">>, <<"Unpack", "general">> >>

\* get_category_from_method_name; a prefix is the first token of the name
GetCategoryFromMethodName(name) ==
    LET hits == {i \in 1..Len(MethodPrefixes) : name[1] = MethodPrefixes[i][1]}
    IN  IF hits # {} THEN MethodPrefixes[Min(hits)][2]
        ELSE IF Occurs(<<"WritingSystem">>, name) \/ Occurs(<<"WS">>, name) THEN "system"
        ELSE IF Occurs(<<"SemanticDomain">>, name) \/ Occurs(<<"PartsOfSpeech">>, name)
             THEN "lists"
        ELSE IF Occurs(<<"Project">>, name) THEN "system"
        ELSE "general"

\* record[field] = value on a dict that may lack the field
WithField(record, field, value) ==
    [x \in DOMAIN record \cup {field} |-> IF x = field THEN value ELSE record[x]]

\* lines 1089-1095: every method gets the category of its name
WithMethodCategories(methods) ==
    [i \in 1..Len(methods) |->
        WithField(methods[i], "category", GetCategoryFromMethodName(methods[i].name))]

\* a plausible slip: the category of the class left as analyze_class derived it
StableCategoryKept(class_info) == class_info.category

\* lines 1089-1101: the most common method category, the one met first among
\* equally common ones (max over the dict's insertion order), "general" for a
\* class without methods
StableCategory(class_info) ==
    LET cats == [i \in 1..Len(class_info.methods) |->
                    GetCategoryFromMethodName(class_info.methods[i].name)]
        count(c) == Cardinality({i \in 1..Len(cats) : cats[i] = c})
        first(c) == Min({i \in 1..Len(cats) : cats[i] = c})
        best == CHOOSE c \in Range(cats) :
                    \A d \in Range(cats) \ {c} :
                        count(c) > count(d) \/ (count(c) = count(d) /\ first(c) < first(d))
    IN  IF cats = <<>> THEN "general" ELSE best

\* lines 1084-1085
IsExceptionClass(name) ==
    Occurs(<<"Error">>, name) \/ Occurs(<<"Exception">>, name) \/ name[1] = "FP_"

\* lines 1068-1075: the top-level functions of a file; the loop stops at the
\* first function whose analysis raises (the except of line 1076), the
\* functions added before it stay
RECURSIVE AddFunctions(_, _, _)
AddFunctions(result, file, i) ==
    IF i > Len(file.functions) THEN result
    ELSE LET node == file.functions[i]
             func_info == AnalyzeMethod(node)
         IN  IF node.name[1] = "_" THEN AddFunctions(result, file, i + 1)
             ELSE IF func_info.kind = "raise" THEN result
             ELSE IF func_info.kind = "none" THEN AddFunctions(result, file, i + 1)
             ELSE AddFunctions(
                     [result EXCEPT
                         !.functions = Append(@,
                             WithField(WithField(func_info, "source_file",
                                                 FileName(file.path)),
                                       "category", GetCategoryFromMethodName(node.name))),
                         !.metadata.total_functions = @ + 1],
                     file, i + 1)

\* lines 1080-1140: the classes of a file; exception classes are left out, the
\* others get their methods' categories and the category of the class
RECURSIVE AddStableClasses(_, _)
AddStableClasses(result, classes) ==
    IF classes = <<>> THEN result
    ELSE LET class_info == Head(classes)
             recategorised ==
                 [class_info EXCEPT !.methods = WithMethodCategories(@),
                                    !.category = StableCategory(class_info)]
         IN  IF IsExceptionClass(class_info.name)
             THEN AddStableClasses(result, Tail(classes))
             ELSE AddStableClasses(AddClass(result, recategorised), Tail(classes))

\* lines 1055-1140: what analyze_flexlibs_stable does with one file
FoldStable(result, file, info) ==
    IF info.kind # "file_info" THEN result
    ELSE AddStableClasses(
             AddFunctions([result EXCEPT !.metadata.files_analyzed = @ + 1], file, 1),
             info.classes)

\* one iteration of the loop over the files of the directory, info being the
\* file_info analyze_python_file returned for the file
FoldFile(type, result, file, info) ==
    IF IsDunderFile(file) THEN result
    ELSE IF type = "flexlibs2" THEN FoldFlexlibs2(result, info)
    ELSE FoldStable(result, file, info)

\* lines 966-973: the category index, built from the entities in dict order
RECURSIVE CategoryIndex(_, _)
CategoryIndex(index, entities) ==
    IF entities = <<>> THEN index
    ELSE LET entity == Head(entities).value
             cat == entity.category
             old == IF cat \in Range(DictKeys(index)) THEN DictGet(index, cat).entities
                    ELSE <<>>
         IN  CategoryIndex(
                 DictPut(index, cat,
                         [description |-> <<"Operations related to ", cat>>,
                          entities |-> Append(old, Head(entities).key)]),
                 Tail(entities))

\* lines 962-975: after the loop; sorted(list(s)) of a set of names is held as
\* the set, which determines it
Finish(result) ==
    [result EXCEPT !.categories = CategoryIndex(<<>>, result.entities)]

RECURSIVE FoldFiles(_, _, _)
FoldFiles(type, result, files) ==
    IF files = <<>> THEN result
    ELSE FoldFiles(type,
                   FoldFile(type, result, Head(files), AnalyzePythonFile(Head(files))),
                   Tail(files))

\* analyze_flexlibs2 / analyze_flexlibs_stable on a directory listed in the
\* given order
Analyze(type, files) == Finish(FoldFiles(type, EmptyReport(type), files))

\* ---- the analysed sources ----
SelfArg == [arg |-> "self", annotation |-> NoAnnotation]

PlainArg(name) == [arg |-> name, annotation |-> NoAnnotation]

NoReturns == [kind |-> "none", id |-> ""]

ReturnsStr == [kind |-> "Name", id |-> "str"]

\* def name(args...) -> returns: body, under an optional decorator
FunctionDefNode(name, decorator, args, returns, body) ==
    [name |-> name, decorator |-> decorator, args |-> args, defaults |-> <<>>,
     returns |-> returns, body |-> body]

ClassDefNode(name, body) == [name |-> name, body |-> body]

\* def __init__(self, project): pass
InitMethod == FunctionDefNode(InitName, "", <<SelfArg, PlainArg("project")>>, NoReturns, <<>>)

\* def _resolve(self, hvo): self.__GetObject(hvo)
ResolveMethod ==
    FunctionDefNode(<<"_", "resolve">>, "", <<SelfArg, PlainArg("hvo")>>, NoReturns,
        << CallNode(AttributeNode(NameNode(<<"self">>), <<"__", "GetObject">>),
                    <<NameNode(<<"hvo">>)>>) >>)

\* def GetGloss(self, entry) -> str: entry.Gloss or ''
GetGlossMethod ==
    FunctionDefNode(<<"Get", "Gloss">>, "", <<SelfArg, PlainArg("entry")>>, ReturnsStr,
        << OrNode(AttributeNode(NameNode(<<"entry">>), <<"Gloss">>),
                  [kind |-> "Constant", text |-> "''"]) >>)

\* @property def Senses(self): self.entry.SensesOS
SensesProperty ==
    FunctionDefNode(<<"Senses">>, "property", <<SelfArg>>, NoReturns,
        << AttributeNode(AttributeNode(NameNode(<<"self">>), <<"entry">>),
                         <<"Senses", "OS">>) >>)

\* def FindEntry(self, entry): a body ast.unparse cannot render: a service call
\* on a target nested too deeply, then entry.SensesOS
FindEntryMethod ==
    FunctionDefNode(<<"Find", "Entry">>, "", <<SelfArg, PlainArg("entry")>>, NoReturns,
        << CallNode(AttributeNode(DeepNode, <<"GetService">>), <<NameNode(ILexEntryFactory)>>),
           AttributeNode(NameNode(<<"entry">>), <<"Senses", "OS">>) >>)

\* def Create(self): ServiceLocator.GetService(ILexEntryFactory)
CreateMethod ==
    FunctionDefNode(<<"Create">>, "", <<SelfArg>>, NoReturns,
        << CallNode(AttributeNode(NameNode(<<"ServiceLocator">>), <<"GetService">>),
                    <<NameNode(ILexEntryFactory)>>) >>)

\* def SetWs(self, ws: List[<deep>]): pass -- its analysis raises
SetWsMethod ==
    FunctionDefNode(<<"Set", "Ws">>, "",
        <<SelfArg, [arg |-> "ws", annotation |-> DeepAnnotation]>>, NoReturns, <<>>)

LexiconGetHeadwordMethod ==
    FunctionDefNode(<<"Lexicon", "Get", "Headword">>, "", <<SelfArg, PlainArg("entry")>>,
        ReturnsStr,
        << AttributeNode(AttributeNode(NameNode(<<"entry">>), <<"LexemeForm", "OA">>),
                         <<"Form">>) >>)

LexiconNumberOfEntriesMethod ==
    FunctionDefNode(<<"Lexicon", "Number", "Of", "Entries">>, "", <<SelfArg>>, NoReturns,
        << CallNode(AttributeNode(NameNode(<<"project">>), <<"ObjectsIn">>),
                    <<NameNode(ILexEntryRepository)>>) >>)

TextGetTitleMethod ==
    FunctionDefNode(<<"Text", "Get", "Title">>, "", <<SelfArg, PlainArg("text")>>, NoReturns,
                    <<>>)

\* top-level functions
HelperFunction == FunctionDefNode(<<"_", "helper">>, "", <<>>, NoReturns, <<>>)

GetProjectsFunction == FunctionDefNode(<<"Get", "Projects">>, "", <<>>, NoReturns, <<>>)

InitFunction == FunctionDefNode(InitName, "", <<>>, NoReturns, <<>>)

SetWsFunction ==
    FunctionDefNode(<<"Set", "Ws">>, "", <<[arg |-> "ws", annotation |-> DeepAnnotation]>>,
                    NoReturns, <<>>)

LcmImport(name) == [module |-> <<"SIL.LCModel">>, name |-> name]

SourceFile(path, parses, lcm_imports, functions, classes) ==
    [path |-> path, parses |-> parses, lcm_imports |-> lcm_imports,
     functions |-> functions, classes |-> classes]

LexEntryOperations == <<"LexEntry", "Operations">>

\* the files of the analysed tree; the fourth and the last do not parse
SourceFiles ==
    << SourceFile(<<"Lexicon", "/", "LexEntryOperations">>, TRUE,
                  <<LcmImport("ILexEntryFactory")>>, <<>>,
                  << ClassDefNode(LexEntryOperations,
                        <<InitMethod, ResolveMethod, GetGlossMethod, SensesProperty,
                          FindEntryMethod>>) >>),
       SourceFile(<<"Grammar", "/", "LexEntryOperations">>, TRUE,
                  <<LcmImport("ILexEntryRepository")>>, <<>>,
                  << ClassDefNode(LexEntryOperations, <<CreateMethod>>) >>),
       SourceFile(<<"Lists", "/", "PossibilityListOperations">>, TRUE, <<>>, <<>>,
                  << ClassDefNode(<<"PossibilityList", "Operations">>, <<GetGlossMethod>>),
                     ClassDefNode(<<"WritingSystem", "Helper">>, <<SetWsMethod>>) >>),
       SourceFile(<<"TextsWords", "/", "TextOperations">>, FALSE, <<>>, <<>>,
                  << ClassDefNode(<<"Text", "Operations">>, <<TextGetTitleMethod>>) >>),
       SourceFile(<<"System", "/", "__init__">>, TRUE, <<>>, <<>>,
                  << ClassDefNode(<<"Package">>, <<GetGlossMethod>>) >>),
       SourceFile(<<"Notebook", "/", "helpers">>, TRUE, <<>>, <<GetProjectsFunction>>, <<>>),
       SourceFile(<<"FLExProject">>, TRUE, <<LcmImport("ILexEntryFactory")>>,
                  <<HelperFunction, GetProjectsFunction, InitFunction>>,
                  << ClassDefNode(<<"FLExProject">>,
                        <<InitMethod, TextGetTitleMethod, LexiconGetHeadwordMethod,
                          LexiconNumberOfEntriesMethod>>),
                     ClassDefNode(<<"FP_", "ProjectError">>, <<InitMethod>>) >>),
       SourceFile(<<"Lexicon", "Tools">>, TRUE, <<>>,
                  <<GetProjectsFunction, SetWsFunction, GetProjectsFunction>>,
                  << ClassDefNode(<<"Lexicon", "Tools">>,
                        <<TextGetTitleMethod, GetGlossMethod>>),
                     ClassDefNode(<<"FLExProject">>, <<GetGlossMethod>>) >>),
       SourceFile(<<"FLExBroken">>, FALSE, <<>>, <<GetProjectsFunction>>,
                  << ClassDefNode(<<"Broken">>, <<GetGlossMethod>>) >>) >>

\* rglob("*.py") of analyze_flexlibs2 lists every file of the tree, glob("*.py")
\* of analyze_flexlibs_stable the files of the code directory itself
ListedFiles(type) ==
    IF type = "flexlibs2" THEN 1..Len(SourceFiles)
    ELSE {i \in 1..Len(SourceFiles) : ~Occurs(<<"/">>, SourceFiles[i].path)}

\* the directory listings: up to MaxFiles different files in any order
Listings(type) ==
    UNION { { [i \in 1..n |-> SourceFiles[idx[i]]] :
                idx \in {s \in SeqOfLen(ListedFiles(type), n) :
                            \A i, j \in 1..n : i # j => s[i] # s[j]} } :
            n \in 0..MaxFiles }

ReportInit ==
    /\ source_type \in {"flexlibs2", "flexlibs"}
    /\ py_files \in Listings(source_type)
    /\ todo_files = py_files
    /\ file_info = [kind |-> "none"]
    /\ report = EmptyReport(source_type)
    /\ pc = "files"
    /\ ClassifyIdle /\ SigIdle /\ DocIdle /\ ScanIdle /\ CategoryIdle /\ AuxIdle

\* one iteration of `for py_file in ...`: the file is analysed and folded
AnalyzeFile ==
    /\ pc = "files"
    /\ todo_files # <<>>
    /\ file_info' = IF IsDunderFile(Head(todo_files)) THEN file_info
                    ELSE AnalyzePythonFile(Head(todo_files))
    /\ report' = FoldFile(source_type, report, Head(todo_files), file_info')
    /\ todo_files' = Tail(todo_files)
    /\ UNCHANGED <<pc, source_type, py_files, classifyVars, sigVars, docVars, scanVars,
                   categoryVars, auxVars>>

\* after the loop: the interface list and the category index
FinishReport ==
    /\ pc = "files"
    /\ todo_files = <<>>
    /\ pc' = "done"
    /\ report' = Finish(report)
    /\ UNCHANGED <<source_type, py_files, todo_files, file_info, classifyVars, sigVars,
                   docVars, scanVars, categoryVars, auxVars>>

ReportNext == AnalyzeFile \/ FinishReport

SpecReport == ReportInit /\ [][ReportNext]_vars


(***************************************************************************)
(* Properties of the whole-codebase fold.                                  *)
(***************************************************************************)
\* the files the loop has gone through
FoldedFiles == SubSeq(py_files, 1, Len(py_files) - Len(todo_files))

\* the class records of the report
Entities == {report.entities[i].value : i \in 1..Len(report.entities)}

\* the method and property records of a class record
Members(class_info) == Range(class_info.methods) \cup Range(class_info.properties)

MemberNames(class_info) == {m.name : m \in Members(class_info)}

\* the source file the file_info of the last analysed file was made from
AnalysedFile == CHOOSE f \in Range(py_files) : f.path = file_info.module_path

\* the category of the first keyword of the ordered list occurring in the path
PathCategory(path) ==
    IF KeywordHits(path) = {} THEN "general"
    ELSE KeywordList[Min(KeywordHits(path))][2]

\* C2 (as stated): no emitted method, property or top-level function has a
\* name starting with an underscore, the constructor __init__ included
C2_NoUnderscoreName ==
    /\ \A e \in Entities : \A name \in MemberNames(e) : name[1] # "_"
    /\ source_type = "flexlibs" =>
          \A i \in 1..Len(report.functions) : report.functions[i].name[1] # "_"

\* C2 (amended): of the names starting with an underscore only __init__ is
\* emitted for a class, and a class that defines __init__ does get it among its
\* methods; the top-level function scan of the stable analysis drops every
\* name starting with an underscore, __init__ included
C2_PrivateDroppedInitKept ==
    /\ \A e \in Entities : \A name \in MemberNames(e) : name[1] = "_" => name = InitName
    /\ source_type = "flexlibs" =>
          \A i \in 1..Len(report.functions) : report.functions[i].name[1] # "_"
    /\ file_info.kind = "file_info" =>
          \A i \in 1..Len(file_info.classes) :
              (\E item \in Range(AnalysedFile.classes[i].body) : item.name = InitName)
                  => InitName \in {m.name : m \in Range(file_info.classes[i].methods)}

\* a class defining __init__, _resolve and public methods is reported with
\* __init__ and without _resolve
C2_Witness ==
    /\ pc = "done"
    /\ \E e \in Entities :
          /\ e.source_file = <<"Lexicon", "/", "LexEntryOperations">>
          /\ InitName \in MemberNames(e)
          /\ <<"Get", "Gloss">> \in MemberNames(e)
          /\ <<"_", "resolve">> \notin MemberNames(e)

\* two reports with the same content, whatever the order of maps and lists
SameContent(a, b) ==
    /\ a.metadata = b.metadata
    /\ Range(a.entities) = Range(b.entities)
    /\ Range(a.lcm_mapping) = Range(b.lcm_mapping)
    /\ {<<c.key, Range(c.value.entities)>> : c \in Range(a.categories)}
          = {<<c.key, Range(c.value.entities)>> : c \in Range(b.categories)}

\* C3: analysing the files of the directory in any other order gives a report
\* with the same entities, counters, category index and lcm_mapping
C3_OrderIndependent ==
    pc = "done" =>
        \A p \in Permutations(1..Len(py_files)) :
            SameContent(report,
                        Analyze(source_type, [i \in 1..Len(py_files) |-> py_files[p[i]]]))

\* the file is read, parsed and analysed without an exception
Parses(file) == file.parses

AnalysedWithoutRaise(file) == AnalyzePythonFile(file).kind = "file_info"

\* C4: a file that fails to parse contributes nothing -- the report is the one
\* of the directory without it -- its file_info is None, and every file that is
\* analysed without an exception has its classes among the entities
C4_ParseFailureSkipped ==
    /\ \A f \in Range(FoldedFiles) :
          ~Parses(f) => \A e \in Entities : e.source_file # f.path
    /\ (todo_files # py_files /\ ~Parses(py_files[Len(FoldedFiles)])) =>
          \/ file_info.kind = "none"
          \/ file_info.module_path # py_files[Len(FoldedFiles)].path
    /\ pc = "files" =>
          report = FoldFiles(source_type, EmptyReport(source_type),
                             SelectSeq(FoldedFiles, Parses))
    /\ pc = "done" => report = Analyze(source_type, SelectSeq(py_files, Parses))
    /\ \A f \in Range(FoldedFiles) :
          (AnalysedWithoutRaise(f) /\ ~IsDunderFile(f)) =>
              \A c \in Range(f.classes) :
                  (source_type = "flexlibs" /\ IsExceptionClass(c.name))
                  \/ \E e \in Entities : e.name = c.name

\* a directory whose first file does not parse: the second file is reported
C4_Witness ==
    /\ pc = "done"
    /\ Len(py_files) = 2
    /\ ~Parses(py_files[1])
    /\ py_files[1].classes # <<>>
    /\ report.metadata.files_analyzed = 1
    /\ report.metadata.total_classes = 1
    /\ \E e \in Entities : e.source_file = py_files[2].path

\* ast.unparse raises on a statement of the function's body
BodyFailsToUnparse(node) == \E i \in 1..Len(node.body) : TooDeep(node.body[i])

\* the function definition a member record of class i of the analysed file
\* was made from
NodeOf(i, member) ==
    CHOOSE item \in Range(AnalysedFile.classes[i].body) : item.name = member.name

\* a summary that records nothing
IsEmptySummary(lcm_calls) ==
    /\ lcm_calls.factories_used = <<>> /\ lcm_calls.repositories_used = <<>>
    /\ lcm_calls.properties_accessed = <<>> /\ lcm_calls.methods_called = <<>>
    /\ lcm_calls.utilities_used = <<>> /\ lcm_calls.transformations = <<>>
    /\ lcm_calls.param_usage = <<>> /\ lcm_calls.mapping_type = "pure_python"

\* the analysis of a method of the file raises
FileRaises(file) ==
    \E c \in Range(file.classes) : \E item \in Range(c.body) :
        ~IsSkipped(item) /\ SignatureRaises(item)

\* C5 (as stated): a function whose body fails to scan gets an empty summary,
\* and the other methods and classes of its file are still emitted
C5_EmptySummaryOnFailure ==
    /\ file_info.kind = "file_info" =>
          \A i \in 1..Len(file_info.classes) : \A m \in Members(file_info.classes[i]) :
              BodyFailsToUnparse(NodeOf(i, m)) => IsEmptySummary(m.lcm_mapping)
    /\ \A f \in Range(FoldedFiles) :
          (~IsDunderFile(f) /\ source_type = "flexlibs2") =>
              \A c \in Range(f.classes) :
                  (\E item \in Range(c.body) : ~IsSkipped(item) /\ ~SignatureRaises(item))
                      => \E e \in Entities : e.name = c.name

\* C5 (amended): a function whose body ast.unparse cannot render keeps a
\* partly filled summary -- no code-level transformation notes and no factory
\* from a call whose target cannot be rendered, but the suffixed properties
\* its body accesses -- and it, its siblings and the other classes of the file
\* are emitted; a file that does not parse, or in which the analysis of one
\* method raises, contributes no class at all
C5_PartialSummaryOrWholeFile ==
    /\ file_info.kind = "file_info" =>
          \A i \in 1..Len(file_info.classes) :
              /\ \A item \in Range(AnalysedFile.classes[i].body) :
                    ~IsSkipped(item) => item.name \in MemberNames(file_info.classes[i])
              /\ \A m \in Members(file_info.classes[i]) :
                    BodyFailsToUnparse(NodeOf(i, m)) =>
                        /\ \A k \in 1..Len(m.lcm_mapping.transformations) :
                              m.lcm_mapping.transformations[k].type = "default_value"
                        /\ \A id \in Range(m.lcm_mapping.factories_used) :
                              \E call \in CallsOf(NodeOf(i, m)) :
                                  TargetUnparses(call) /\ id \in NameArgs(call)
                        /\ \A a \in Range(Walk(NodeOf(i, m))) :
                              (a.kind = "Attribute" /\ SuffixIndex(a.attr) # 0) =>
                                  \E p \in Range(m.lcm_mapping.properties_accessed) :
                                      Take(p, Len(a.attr)) = a.attr
    /\ \A f \in Range(FoldedFiles) :
          (~Parses(f) \/ FileRaises(f)) => \A e \in Entities : e.source_file # f.path

\* FindEntry, whose body cannot be rendered, is reported as a direct mapping
\* with the property its body accesses, next to its siblings
C5_Witness ==
    /\ pc = "files"
    /\ file_info.kind = "file_info"
    /\ \E i \in 1..Len(file_info.classes) :
          /\ \E m \in Range(file_info.classes[i].methods) :
                /\ m.name = <<"Find", "Entry">>
                /\ BodyFailsToUnparse(NodeOf(i, m))
                /\ m.lcm_mapping.properties_accessed
                      = << <<"Senses", "OS", " (", "OwningSequence", ")">> >>
                /\ m.lcm_mapping.factories_used = <<>>
                /\ m.lcm_mapping.mapping_type = "direct"
          /\ <<"Get", "Gloss">> \in MemberNames(file_info.classes[i])

\* C8 (as stated): in the report of either analysis the category of every
\* entity is the one derived from its module path and equals the category of
\* its tags
C8_CategoryFromPathEverywhere ==
    \A e \in Entities :
        e.category = PathCategory(e.source_file) /\ e.tags[1] = e.category

\* how many methods of the class have the category, and the first of them
CategoryCount(e, c) == Cardinality({i \in 1..Len(e.methods) : e.methods[i].category = c})

FirstWithCategory(e, c) == Min({i \in 1..Len(e.methods) : e.methods[i].category = c})

\* C8 (amended): the category of the tags is always the one derived from the
\* module path; the category of the entity equals it in the flexlibs2 report,
\* and in the stable report is the most common category of the methods' names
\* (the one met first among equally common ones; "general" without methods)
C8_CategoryPerAnalysis ==
    \A e \in Entities :
        /\ e.tags[1] = PathCategory(e.source_file)
        /\ source_type = "flexlibs2" => e.category = e.tags[1]
        /\ source_type = "flexlibs" =>
              IF e.methods = <<>> THEN e.category = "general"
              ELSE /\ CategoryCount(e, e.category) > 0
                   /\ \A c \in AllCategories \ {e.category} :
                         \/ CategoryCount(e, c) < CategoryCount(e, e.category)
                         \/ /\ CategoryCount(e, c) = CategoryCount(e, e.category)
                            /\ FirstWithCategory(e, e.category) < FirstWithCategory(e, c)

\* the stable report holds FLExProject with the category of its methods'
\* names while its tags keep the category of its path
C8_Witness ==
    /\ pc = "done"
    /\ source_type = "flexlibs"
    /\ \E e \in Entities :
          /\ e.source_file = <<"FLExProject">>
          /\ e.category = "lexicon"
          /\ e.tags = <<"general">>


(***************************************************************************)
(* Counters of the report against its maps.                                *)
(***************************************************************************)
\* the entity names the category index lists under the category
IndexedUnder(cat) ==
    IF cat \in Range(DictKeys(report.categories))
    THEN DictGet(report.categories, cat).entities
    ELSE <<>>

\* C27: in the report of analyze_flexlibs2, total_classes is the number of
\* keys of entities, and for every category metadata.categories[cat] is the
\* length of categories[cat].entities, also when two files define a class of
\* the same name
C27_CountersMatchMaps ==
    (pc = "done" /\ source_type = "flexlibs2") =>
        /\ report.metadata.total_classes = Len(report.entities)
        /\ \A cat \in AllCategories :
              report.metadata.categories[cat] = Len(IndexedUnder(cat))

(***************************************************************************)
(* Methods and properties in the counters.                                 *)
(***************************************************************************)
\* the function definitions of the classes folded so far, as <<file, class,
\* statement>> positions: the classes of the files that were analysed without
\* a raise, the exception classes of the stable analysis left out, and of
\* their bodies the definitions analyze_method does not skip
FoldedMembers ==
    { site \in UNION { UNION { { <<i, j, k>> :
                                    k \in 1..Len(FoldedFiles[i].classes[j].body) } :
                               j \in 1..Len(FoldedFiles[i].classes) } :
                       i \in 1..Len(FoldedFiles) } :
        LET file == FoldedFiles[site[1]]
            class == file.classes[site[2]]
        IN  /\ AnalysedWithoutRaise(file)
            /\ ~IsDunderFile(file)
            /\ ~(source_type = "flexlibs" /\ IsExceptionClass(class.name))
            /\ ~IsSkipped(class.body[site[3]]) }

ClassAt(site) == FoldedFiles[site[1]].classes[site[2]]

MemberAt(site) == ClassAt(site).body[site[3]]

\* the member carries the decorator @property
PropertyDecorated(site) == MemberAt(site).decorator = "property"

\* C28: the four counts of the relationship-kind histogram sum to
\* total_methods; the property-decorated members are counted in
\* total_properties and in nothing else: total_methods counts the other
\* members only, and every lcm_mapping item is made from a member that is not
\* property-decorated
C28_PropertiesCountedApart ==
    LET metadata == report.metadata
        histogram == metadata.mapping_types
    IN  /\ histogram["direct"] + histogram["convenience"] + histogram["composite"]
              + histogram["pure_python"] = metadata.total_methods
        /\ metadata.total_properties =
              Cardinality({site \in FoldedMembers : PropertyDecorated(site)})
        /\ metadata.total_methods =
              Cardinality({site \in FoldedMembers : ~PropertyDecorated(site)})
        /\ \A item \in Range(report.lcm_mapping) :
              \E site \in FoldedMembers :
                  /\ ~PropertyDecorated(site)
                  /\ item.key = <<ClassAt(site).name, MemberAt(site).name>>
                  /\ item.value.mapping_type =
                        ExtractLcmCalls(MemberAt(site)).mapping_type
        /\ \A site \in FoldedMembers :
              PropertyDecorated(site) =>
                  <<ClassAt(site).name, MemberAt(site).name>>
                      \notin Range(DictKeys(report.lcm_mapping))

\* a class with a property and three methods has been folded: one property,
\* at least three methods, none of them the property
C28_Witness ==
    /\ pc = "done"
    /\ \E site \in FoldedMembers : PropertyDecorated(site)
    /\ report.metadata.total_properties = 1
    /\ report.metadata.total_methods >= 3
    /\ report.lcm_mapping # <<>>

(***************************************************************************)
(* A file is folded as a whole or not at all.                              *)
(***************************************************************************)
\* the file the loop is about to analyse
NextFile == Head(todo_files)

\* the classes of the file the analysis records: all of them, but for the
\* exception classes the stable analysis leaves out
RecordedClasses(file) ==
    SelectSeq(file.classes,
              LAMBDA c : ~(source_type = "flexlibs" /\ IsExceptionClass(c.name)))

\* the function definitions of the class analyze_method does not skip
EmittedMembers(class) == SelectSeq(class.body, LAMBDA item : ~IsSkipped(item))

RECURSIVE EmittedMemberCount(_)
EmittedMemberCount(classes) ==
    IF classes = <<>> THEN 0
    ELSE Len(EmittedMembers(Head(classes))) + EmittedMemberCount(Tail(classes))

\* C30: one iteration of the file loop either leaves the report as it was --
\* when the file is skipped by its name, does not parse, or the analysis of a
\* method of one of its classes raises -- or records every class of the file
\* and advances the counters by the whole file
C30_FileFoldedAtomically ==
    [][todo_files' # todo_files =>
          IF IsDunderFile(NextFile) \/ ~Parses(NextFile) \/ FileRaises(NextFile)
          THEN report' = report
          ELSE LET recorded == RecordedClasses(NextFile)
               IN  /\ \A c \in Range(recorded) :
                         \E item \in Range(report'.entities) :
                             /\ item.key = c.name
                             /\ item.value.source_file = NextFile.path
                   /\ report'.metadata.total_classes =
                         report.metadata.total_classes + Len(recorded)
                   /\ report'.metadata.total_methods + report'.metadata.total_properties =
                         report.metadata.total_methods + report.metadata.total_properties
                         + EmittedMemberCount(recorded)
                   /\ report'.metadata.files_analyzed =
                         report.metadata.files_analyzed
                         + (IF source_type = "flexlibs2" /\ NextFile.classes = <<>>
                            THEN 0 ELSE 1)]_vars

\* a file with one class folded, then a file of two classes of which the
\* second raises: the report holds the first file only
C30_Witness ==
    /\ source_type = "flexlibs2"
    /\ Len(FoldedFiles) = 2
    /\ Parses(FoldedFiles[1]) /\ ~FileRaises(FoldedFiles[1])
    /\ Parses(FoldedFiles[2]) /\ FileRaises(FoldedFiles[2])
    /\ Len(FoldedFiles[2].classes) = 2
    /\ ~(\E item \in Range(FoldedFiles[2].classes[1].body) : SignatureRaises(item))
    /\ report.metadata.files_analyzed = 1
    /\ report.metadata.total_classes = 1
    /\ \A e \in Entities : e.source_file = FoldedFiles[1].path

(***************************************************************************)
(* Description and usage-hint synthesis: generate_method_usage_hint,       *)
(* generate_entity_usage_hint, generate_method_description and the         *)
(* fallback of analyze_method (lines 740-755).  Names and the synthesized  *)
(* texts are strings; the string methods are computed character by         *)
(* character.                                                              *)
(***************************************************************************)
\* most words a method or class name is made of
MaxWords == 3

\* str.startswith
StrStartsWith(s, prefix) == Len(s) >= Len(prefix) /\ SubSeq(s, 1, Len(prefix)) = prefix

\* sub in s
StrIn(sub, s) == \E i \in 1..(Len(s) - Len(sub) + 1) : SubSeq(s, i, i + Len(sub) - 1) = sub

\* s.replace(old, ""), old not empty
RECURSIVE StrRemove(_, _)
StrRemove(s, old) ==
    IF Len(s) < Len(old) THEN s
    ELSE IF SubSeq(s, 1, Len(old)) = old THEN StrRemove(SubSeq(s, Len(old) + 1, Len(s)), old)
    ELSE Head(s) \o StrRemove(Tail(s), old)

RECURSIVE StrLStrip(_)
StrLStrip(s) == IF Len(s) > 0 /\ Head(s) = " " THEN StrLStrip(Tail(s)) ELSE s

RECURSIVE StrRStrip(_)
StrRStrip(s) ==
    IF Len(s) > 0 /\ SubSeq(s, Len(s), Len(s)) = " "
    THEN StrRStrip(SubSeq(s, 1, Len(s) - 1)) ELSE s

\* str.strip
StrStrip(s) == StrRStrip(StrLStrip(s))

UpperLetters == "ABCDEFGHIJKLMNOPQRSTUVWXYZ"
LowerLetters == "abcdefghijklmnopqrstuvwxyz"

\* the position of a one-character string in the upper-case alphabet, 0 for none
UpperIndex(c) ==
    LET hits == {i \in 1..Len(UpperLetters) : SubSeq(UpperLetters, i, i) = c}
    IN  IF hits = {} THEN 0 ELSE CHOOSE i \in hits : TRUE

\* str.isupper for one character
IsUpper(c) == UpperIndex(c) # 0

\* str.lower
RECURSIVE StrLower(_)
StrLower(s) ==
    IF Len(s) = 0 THEN ""
    ELSE LET k == UpperIndex(Head(s))
         IN  (IF k # 0 THEN SubSeq(LowerLetters, k, k) ELSE Head(s)) \o StrLower(Tail(s))

\* re.sub('([A-Z])', r' \1', s)
RECURSIVE CamelSpaced(_)
CamelSpaced(s) ==
    IF Len(s) = 0 THEN ""
    ELSE (IF IsUpper(Head(s)) THEN " " \o Head(s) ELSE Head(s)) \o CamelSpaced(Tail(s))

\* ", ".join(params)
RECURSIVE JoinComma(_)
JoinComma(params) ==
    IF params = <<>> THEN ""
    ELSE IF Len(params) = 1 THEN params[1]
    ELSE params[1] \o ", " \o JoinComma(Tail(params))

\* the text of a token sequence of the docstring parser
RECURSIVE JoinTokens(_)
JoinTokens(tokens) == IF tokens = <<>> THEN "" ELSE Head(tokens) \o JoinTokens(Tail(tokens))

\* generate_method_usage_hint
GenerateMethodUsageHint(method_name, return_type) ==
    LET name_lower == StrLower(method_name)
        starts(p) == StrStartsWith(method_name, p)
    IN  IF starts("Get") \/ starts("Find") THEN "retrieval"
        ELSE IF starts("Set") \/ starts("Update") THEN "modification"
        ELSE IF starts("Create") \/ starts("Add") \/ starts("New") THEN "creation"
        ELSE IF starts("Delete") \/ starts("Remove") THEN "deletion"
        ELSE IF starts("Is") \/ starts("Has") \/ starts("Can") THEN "validation"
        ELSE IF starts("Convert") \/ starts("Parse") \/ starts("Format") THEN "conversion"
        ELSE IF starts("Move") \/ starts("Copy") THEN "manipulation"
        ELSE IF starts("Load") \/ starts("Read") THEN "retrieval"
        ELSE IF starts("Save") \/ starts("Write") THEN "persistence"
        ELSE IF StrIn("list", name_lower) \/ StrIn("all", name_lower) THEN "enumeration"
        ELSE IF return_type # "" /\ StrLower(return_type) \in {"bool", "boolean"}
            THEN "validation"
        ELSE IF return_type # "" /\ (\/ StrLower(return_type) \in {"list", "iterator", "iterable"}
                                     \/ StrStartsWith(return_type, "List["))
            THEN "enumeration"
        ELSE "general"

\* generate_entity_usage_hint: the returned text, or the IndexError of name[1] on a
\* one-character name
GenerateEntityUsageHint(name, cat) ==
    LET value(text) == [kind |-> "value", text |-> text]
    IN  IF StrIn("Operations", name)
        THEN value("Provides operations for working with " \o cat \o " data in FieldWorks")
        ELSE IF StrIn("Repository", name)
        THEN value("Repository for accessing " \o cat \o " objects")
        ELSE IF StrIn("Factory", name)
        THEN value("Factory for creating " \o cat \o " objects")
        ELSE IF StrIn("Service", name)
        THEN value("Service for " \o cat \o " operations")
        ELSE IF StrStartsWith(name, "I")
        THEN IF Len(name) < 2 THEN [kind |-> "raise", error |-> "IndexError"]
             ELSE IF IsUpper(SubSeq(name, 2, 2))
             THEN value("Interface defining " \o cat \o " object structure and behavior")
             ELSE value("Class for working with " \o cat \o " data in FieldWorks")
        ELSE value("Class for working with " \o cat \o " data in FieldWorks")

\* the patterns dictionary of generate_method_description, in declaration order
DescriptionPatterns ==
    << <<"GetAll", "Returns all objects of this type">>,
       <<"GetCount", "Returns the count of objects">>,
       <<"GetGuid", "Returns the unique identifier (GUID) of the object">>,
       <<"GetOwner", "Returns the owning object">>,
       <<"GetOwning", "Returns the owning object">>,
       <<"GetParent", "Returns the parent object">>,
       <<"GetForm", "Returns the form (text representation) of the object">>,
       <<"GetName", "Returns the name of the object">>,
       <<"GetDate", "Returns the date">>,
       <<"GetDateModified", "Returns when the object was last modified">>,
       <<"GetDateCreated", "Returns when the object was created">>,
       <<"SetForm", "Sets the form (text representation) of the object">>,
       <<"SetName", "Sets the name of the object">>,
       <<"NumberOf", "Returns the count of">>,
       <<"AllEntries", "Returns all entries">>,
       <<"AllSenses", "Returns all senses">>,
       <<"Create", "Creates a new object">>,
       <<"Delete", "Deletes the object">>,
       <<"Add", "Adds an item">>,
       <<"Remove", "Removes an item">>,
       <<"Find", "Finds objects matching the criteria">>,
       <<"Lookup", "Looks up an object by identifier">>,
       <<"Move", "Moves the object">>,
       <<"Merge", "Merges objects together">>,
       <<"Duplicate", "Creates a copy of the object">> >>

\* the entries of the dictionary whose fragment occurs in the name
MatchingPatterns(name) ==
    {k \in 1..Len(DescriptionPatterns) : StrIn(DescriptionPatterns[k][1], name)}

\* the words of a CamelCase text with their capitals kept
CamelWordsKeepingCase(text) == StrStrip(CamelSpaced(text))

\* the words of a CamelCase text: re.sub(...).strip().lower()
CamelWords(text) == StrLower(StrStrip(CamelSpaced(text)))

\* the entry with the longest matching fragment (the first of them on a tie)
LongestPattern(name, hits) ==
    CHOOSE k \in hits :
        \A j \in hits : /\ Len(DescriptionPatterns[j][1]) <= Len(DescriptionPatterns[k][1])
                        /\ Len(DescriptionPatterns[j][1]) = Len(DescriptionPatterns[k][1])
                              => k <= j

\* lines 218-226: the loop returns at the first entry, in declaration order, that matches
FirstPattern(name, hits) == Min(hits)

\* generate_method_description
GenerateMethodDescription(method_name, params, return_type) ==
    LET name == method_name
        hits == MatchingPatterns(name)
    IN  IF hits # {}
        THEN LET k == FirstPattern(name, hits)
                 desc == DescriptionPatterns[k][2]
                 suffix == StrStrip(StrRemove(name, DescriptionPatterns[k][1]))
             IN  IF suffix # "" THEN StrRStrip(desc \o " " \o CamelWords(suffix)) ELSE desc
        ELSE IF StrStartsWith(name, "Get")
        THEN "Returns the " \o CamelWords(SubSeq(name, 4, Len(name)))
        ELSE IF StrStartsWith(name, "Set")
        THEN "Sets the " \o CamelWords(SubSeq(name, 4, Len(name)))
        ELSE IF StrStartsWith(name, "Is")
        THEN "Checks if " \o CamelWords(SubSeq(name, 3, Len(name)))
        ELSE IF StrStartsWith(name, "Has") \/ StrStartsWith(name, "Can")
        THEN "Checks if " \o CamelWords(SubSeq(name, 4, Len(name)))
        ELSE IF params # <<>>
        THEN "Performs " \o method_name \o " operation with "
                 \o JoinComma(SubSeq(params, 1, Min({2, Len(params)})))
        ELSE StrStrip(CamelSpaced(name)) \o " operation"


\* parse_docstring over the lines of a docstring: the loop of lines 56-111
RECURSIVE ParseLines(_, _, _, _)
ParseLines(result, section, arg, lines) ==
    IF lines = <<>> THEN result
    ELSE LET line == Head(lines)
             next == SectionAfter(section, line)
             isHeader == HeaderSection(Strip(line)) # ""
             step == ProcessContent(result, next, arg, line)
         IN  ParseLines(IF isHeader THEN result ELSE step.res, next,
                        IF isHeader THEN arg ELSE step.arg, Tail(lines))

\* parse_docstring: the empty result for an empty docstring (lines 49-50), else the
\* result of the loop with the summary extracted (lines 113-116)
ParseDocstring(lines) ==
    IF lines = <<>> THEN EmptyDoc
    ELSE LET r == ParseLines(EmptyDoc, "description", NoArg, lines)
         IN  [r EXCEPT !.summary = IF r.description # <<>> THEN Summary(r.description) ELSE @]

\* lines 724-738: the annotation, else the return type of the docstring
ReturnTypeOf(node, parsed_doc) ==
    IF node.returns # "" THEN node.returns ELSE JoinTokens(parsed_doc.return_type)

\* the function definition extract_lcm_calls is handed (line 698): the signature
\* the parameter list stands for, and the docstring as the first statement
MethodNode(node) ==
    [name |-> <<node.name>>,
     args |-> <<SelfArg>> \o (IF node.params = <<>> THEN <<>>
                              ELSE <<[arg |-> "hvo", annotation |-> [kind |-> "Name", id |-> "int"]],
                                     PlainArg("ws"), PlainArg("k")>>),
     defaults |-> IF node.params = <<>> THEN <<>>
                  ELSE <<[kind |-> "Constant", value |-> PyNone, id |-> ""],
                         [kind |-> "Constant", value |-> [t |-> "int", v |-> "3"], id |-> ""]>>,
     body |-> (IF node.doc_lines = <<>> THEN <<>>
               ELSE <<[kind |-> "Constant", text |-> "'docstring'"]>>) \o node.body]

\* lines 740-765: summary, description, usage_hint and lcm_mapping of the method_info
MethodTexts(node, parsed_doc, return_type, lcm_calls) ==
    LET summary == JoinTokens(parsed_doc.summary)
        description == JoinTokens(parsed_doc.description)
        generated_desc == GenerateMethodDescription(node.name, node.params, return_type)
        fallback == description = "" \/ Len(description) < 10
    IN  [kind |-> "method",
         name |-> node.name,
         summary |-> IF fallback /\ summary = "" THEN generated_desc ELSE summary,
         description |-> IF fallback /\ description = "" THEN generated_desc
                         ELSE description,
         usage_hint |-> GenerateMethodUsageHint(node.name, return_type),
         return_type |-> return_type,
         lcm_mapping |-> lcm_calls]

\* the words method names are made of, and those of class names
MethodWords == {"Get", "Is", "Date", "Modified", "All", "Gloss", "x"}
ClassWords == {"I", "LexEntry", "Operations", "Factory", "tem"}

\* the names of at most MaxWords words
NamesOf(words) ==
    {JoinTokens(ws) : ws \in UNION {SeqOfLen(words, n) : n \in 0..MaxWords}}

\* the docstrings of the methods: none, a description of 5 characters, one of 16,
\* an Args section without a description, a short description with a return type
MethodDocs ==
    { <<>>,
      << <<"the x">> >>,
      << <<"Some text", ".", Blank, "the x">> >>,
      << <<"Args", ":">>, <<Blank, "x", ":", Blank, "the x">> >>,
      << <<"the x">>, <<"Returns", ":">>, <<Blank, "bool", ":", Blank, "whether found">> >> }

\* the bodies of the methods: pass, and ServiceLocator.GetService(ILexEntryFactory)
MethodBodies ==
    { <<>>,
      << CallNode(AttributeNode(NameNode(<<"ServiceLocator">>), <<"GetService">>),
                  <<NameNode(ILexEntryFactory)>>) >> }

MethodInputs ==
    { [kind |-> "method", name |-> n, params |-> p, returns |-> r, doc_lines |-> d,
       body |-> b] :
        n \in NamesOf(MethodWords), p \in { <<>>, <<"hvo: int", "ws=None", "k=3">> },
        r \in {"", "List[str]"}, d \in MethodDocs, b \in MethodBodies }

ClassInputs ==
    { [kind |-> "class", name |-> n, category |-> c] :
        n \in NamesOf(ClassWords), c \in {"lexicon", "general"} }

SynthInit ==
    /\ synth_input \in MethodInputs \cup ClassInputs
    /\ synth_output = Idle
    /\ pc = "start"
    /\ BaseIdle /\ MainIdle /\ XrefIdle /\ RerunIdle /\ RefreshIdle

\* analyze_method, lines 693-698 and 724-765: the texts and the host-call summary
\* of the emitted method_info;
\* params is the list get_function_signature returned (self left out)
SynthesizeMethod ==
    /\ pc = "start"
    /\ synth_input.kind = "method"
    /\ LET parsed_doc == ParseDocstring(synth_input.doc_lines)
       IN  synth_output' = MethodTexts(synth_input, parsed_doc,
                                       ReturnTypeOf(synth_input, parsed_doc),
                                       ExtractLcmCalls(MethodNode(synth_input)))
    /\ pc' = "done"
    /\ UNCHANGED <<synth_input, baseVars, mainVars, xrefVars, rerunVars, refreshVars>>

\* analyze_class, line 830: the usage hint of the emitted class_info
SynthesizeEntity ==
    /\ pc = "start"
    /\ synth_input.kind = "class"
    /\ synth_output' = GenerateEntityUsageHint(synth_input.name, synth_input.category)
    /\ pc' = "done"
    /\ UNCHANGED <<synth_input, baseVars, mainVars, xrefVars, rerunVars, refreshVars>>

SynthNext == SynthesizeMethod \/ SynthesizeEntity

SpecSynth == SynthInit /\ [][SynthNext]_vars

\* the method's documentation as parse_docstring returns it
ParsedDoc == ParseDocstring(synth_input.doc_lines)

\* a method has been described
MethodDescribed == pc = "done" /\ synth_input.kind = "method"

\* the description synthesized from the name of the described method
SynthesizedDescription ==
    GenerateMethodDescription(synth_input.name, synth_input.params, synth_output.return_type)

(***************************************************************************)
(* C14 as stated: when the parsed documentation is absent or its           *)
(* description is shorter than 10 characters, the emitted method record    *)
(* carries the description synthesized from the method name.               *)
(***************************************************************************)
C14_ShortDescriptionReplaced ==
    (MethodDescribed /\ Len(JoinTokens(ParsedDoc.description)) < 10)
        => synth_output.description = SynthesizedDescription

(***************************************************************************)
(* C15 as stated: when several fragments of the dictionary match a method  *)
(* name, the longest one determines the canned phrase.                     *)
(***************************************************************************)
C15_LongestFragmentWins ==
    (/\ MethodDescribed
     /\ ParsedDoc.description = <<>>
     /\ MatchingPatterns(synth_input.name) # {})
        => StrStartsWith(synth_output.description,
                         DescriptionPatterns[LongestPattern(synth_input.name,
                                                MatchingPatterns(synth_input.name))][2])

(***************************************************************************)
(* C16 as stated: the synthesizers return a value for every method name,   *)
(* class name and parameter list, and never raise.                         *)
(***************************************************************************)
C16_SynthesisTotal ==
    pc = "done" => synth_output.kind # "raise"


(***************************************************************************)
(* The command line: main (lines 1267-1345) with the directory tests of    *)
(* analyze_flexlibs2 (lines 877-880) and analyze_flexlibs_stable (lines    *)
(* 1013-1016).  An option that was not given (None) and an empty string    *)
(* are both "": main only tests the options for truth.                     *)
(***************************************************************************)
\* the defaults of the third branch (lines 1322-1323)
DefaultFlexlibs2 == "D:\\Github\\flexlibs2"
DefaultFlexlibs == "D:\\Github\\flexlibs"

\* Path(root) / package / "code"
CodeDir(root, package) == root \o "/" \o package \o "/code"

\* the directories a disk may hold
AllDirs ==
    { CodeDir("A", "flexlibs"), CodeDir("A", "flexlibs2"), CodeDir("B", "flexlibs2"),
      DefaultFlexlibs2, CodeDir(DefaultFlexlibs2, "flexlibs2"),
      DefaultFlexlibs, CodeDir(DefaultFlexlibs, "flexlibs") }

\* a code directory exists only inside its root
Disks ==
    { [dirs |-> ds, can_write |-> w, written |-> <<>>] :
        ds \in { s \in SUBSET AllDirs :
                   /\ CodeDir(DefaultFlexlibs2, "flexlibs2") \in s => DefaultFlexlibs2 \in s
                   /\ CodeDir(DefaultFlexlibs, "flexlibs") \in s => DefaultFlexlibs \in s },
        w \in BOOLEAN }

CommandLines ==
    { [flexlibs_path |-> s, flexlibs2_path |-> t, output |-> o] :
        s \in {"", "A"}, t \in {"", "A", "B"}, o \in {"", "out.json"} }

\* lines 877-880 and 1013-1016: the report of the analysis, or FileNotFoundError
AnalyzeRoot(type, root, disk) ==
    IF CodeDir(root, type) \in disk.dirs
    THEN [kind |-> "report", type |-> type, path |-> root]
    ELSE [kind |-> "raise", error |-> "FileNotFoundError"]

\* the body of a try block: analysis, open(output_file, 'w') and json.dump; the disk
\* afterwards and whether an exception reached the except clause
TryAnalysis(type, root, output_file, disk) ==
    LET api_data == AnalyzeRoot(type, root, disk)
    IN  IF api_data.kind = "raise" \/ ~disk.can_write
        THEN [raised |-> TRUE, disk |-> disk]
        ELSE [raised |-> FALSE,
              disk |-> [disk EXCEPT !.written =
                           Append(@, [file |-> output_file, data |-> api_data])]]

\* args.output or default
OutputOr(output, default) == IF output # "" THEN output ELSE default

\* an explicit branch whose except clause prints the error and returns
ExplicitModeWithoutExit(type, root, output_file, disk) ==
    [code |-> 0, disk |-> TryAnalysis(type, root, output_file, disk).disk]

\* lines 1284-1300 / 1302-1318: an explicit branch; the except clause ends the
\* process with sys.exit(1)
ExplicitMode(type, root, output_file, disk) ==
    LET try == TryAnalysis(type, root, output_file, disk)
    IN  [code |-> IF try.raised THEN 1 ELSE 0, disk |-> try.disk]

\* lines 1325-1334 / 1336-1345: a block of the default branch; the except clause
\* prints the error and goes on
DefaultBlock(type, root, output_file, disk) ==
    IF root \in disk.dirs THEN TryAnalysis(type, root, output_file, disk).disk ELSE disk

Running == [done |-> FALSE, code |-> 0]

MainInit ==
    /\ main_args \in CommandLines
    /\ main_disk \in Disks
    /\ main_status = Running
    /\ pc = "start"
    /\ BaseIdle /\ SynthIdle /\ XrefIdle /\ RerunIdle /\ RefreshIdle

\* main with --flexlibs-path
MainStable ==
    /\ pc = "start"
    /\ main_args.flexlibs_path # ""
    /\ LET end == ExplicitMode("flexlibs", main_args.flexlibs_path,
                               OutputOr(main_args.output, "flexlibs_api.json"), main_disk)
       IN  /\ main_status' = [done |-> TRUE, code |-> end.code]
           /\ main_disk' = end.disk
    /\ pc' = "done"
    /\ UNCHANGED <<main_args, baseVars, synthVars, xrefVars, rerunVars, refreshVars>>

\* main with --flexlibs2-path and without --flexlibs-path
MainFlexlibs2 ==
    /\ pc = "start"
    /\ main_args.flexlibs_path = ""
    /\ main_args.flexlibs2_path # ""
    /\ LET end == ExplicitMode("flexlibs2", main_args.flexlibs2_path,
                               OutputOr(main_args.output, "flexlibs2_api.json"), main_disk)
       IN  /\ main_status' = [done |-> TRUE, code |-> end.code]
           /\ main_disk' = end.disk
    /\ pc' = "done"
    /\ UNCHANGED <<main_args, baseVars, synthVars, xrefVars, rerunVars, refreshVars>>

\* main without a path option: both blocks, then the normal end of the process
MainDefault ==
    /\ pc = "start"
    /\ main_args.flexlibs_path = ""
    /\ main_args.flexlibs2_path = ""
    /\ main_disk' =
          DefaultBlock("flexlibs", DefaultFlexlibs, "flexlibs_api.json",
              DefaultBlock("flexlibs2", DefaultFlexlibs2,
                           OutputOr(main_args.output, "flexlibs2_api.json"), main_disk))
    /\ main_status' = [done |-> TRUE, code |-> 0]
    /\ pc' = "done"
    /\ UNCHANGED <<main_args, baseVars, synthVars, xrefVars, rerunVars, refreshVars>>

MainNext == MainStable \/ MainFlexlibs2 \/ MainDefault

SpecMain == MainInit /\ [][MainNext]_vars

\* the invocation mode of the command line
Mode ==
    IF main_args.flexlibs_path # "" THEN "flexlibs"
    ELSE IF main_args.flexlibs2_path # "" THEN "flexlibs2"
    ELSE "default"

\* the root the explicit mode analyses
ModeRoot == IF Mode = "flexlibs" THEN main_args.flexlibs_path ELSE main_args.flexlibs2_path

\* the directory the mode analyses is missing
InputRootMissing ==
    IF Mode = "default"
    THEN \/ CodeDir(DefaultFlexlibs2, "flexlibs2") \notin main_disk.dirs
         \/ CodeDir(DefaultFlexlibs, "flexlibs") \notin main_disk.dirs
    ELSE CodeDir(ModeRoot, Mode) \notin main_disk.dirs

(***************************************************************************)
(* C17 as stated: when the input root directory is missing, main ends     *)
(* with a non-zero exit status in every invocation mode.                   *)
(***************************************************************************)
C17_MissingRootAborts ==
    (pc = "done" /\ InputRootMissing) => main_status.code # 0

(***************************************************************************)
(* C17 amended: with --flexlibs-path, or with --flexlibs2-path alone, main *)
(* ends with status 1 exactly when the code directory under the given root *)
(* is missing or the output cannot be written, and nothing is written when *)
(* the directory is missing; without a path option main always ends with   *)
(* status 0.                                                               *)
(***************************************************************************)
C17_ExplicitModesAbort ==
    pc = "done" =>
        IF Mode = "default" THEN main_status = [done |-> TRUE, code |-> 0]
        ELSE /\ main_status.done
             /\ main_status.code = (IF InputRootMissing \/ ~main_disk.can_write THEN 1 ELSE 0)
             /\ InputRootMissing => main_disk.written = <<>>

\* --flexlibs2-path B with no B/flexlibs2/code: status 1
C17_Witness ==
    /\ pc = "done"
    /\ Mode = "flexlibs2"
    /\ InputRootMissing
    /\ main_disk.can_write
    /\ main_status = [done |-> TRUE, code |-> 1]


(***************************************************************************)
(* The cross-reference against the LibLCM index: cross_reference_liblcm    *)
(* (lines 1158-1243).  flexlibs_data holds what the function reads of the  *)
(* report: the methods' factories_used and repositories_used and the       *)
(* metadata's lcm_interfaces_used (a missing key reads as empty, as the    *)
(* .get defaults make it).  coverage_pct is in tenths of a percent.        *)
(***************************************************************************)
\* most methods of the report
MaxMethods == 2

\* the symbols the report refers to and the index may define
FactorySymbols == <<"ILexEntryFactory", "ILexSenseFactory">>
RepositorySymbols == <<"ILexEntryRepository">>
InterfaceSymbols == <<"ILexEntry", "ILexSense">>

\* the lcm_mapping of a method, as far as the function reads it
MethodMappings ==
    { [factories_used |-> f, repositories_used |-> r] :
        f \in {SubSeq(FactorySymbols, 1, n) : n \in 0..Len(FactorySymbols)}
              \cup {SubSeq(FactorySymbols, 2, 2)},
        r \in {SubSeq(RepositorySymbols, 1, n) : n \in 0..Len(RepositorySymbols)} }

\* reports: the methods of the entities, and the sorted lcm_interfaces_used
FlexlibsData ==
    { [methods |-> m, lcm_interfaces_used |-> i] :
        m \in UNION {SeqOfLen(MethodMappings, n) : n \in 0..MaxMethods},
        i \in {SubSeq(InterfaceSymbols, 1, n) : n \in 0..Len(InterfaceSymbols)} }

\* the sets of entity names an index may define
IndexedEntities ==
    { {}, {"ILexEntryFactory", "ILexEntry"},
      {"ILexEntryFactory", "ILexSenseFactory", "ILexEntryRepository", "ILexEntry", "ILexSense"} }

\* what json.load may return: an object with an "entities" object, an object without
\* the key, an object whose "entities" is null or an array, and an array
JsonValues ==
    { [type |-> "object", entities |-> [type |-> "object", keys |-> k]] : k \in IndexedEntities }
    \cup { [type |-> "object", entities |-> [type |-> t]] : t \in {"absent", "null", "array"} }
    \cup { [type |-> "array"] }

\* what is stored at the path: nothing, a file that cannot be read, a file that is
\* not JSON, or a JSON document
FileStates ==
    { [kind |-> k] : k \in {"missing", "unreadable", "invalid"} }
    \cup { [kind |-> "json", value |-> v] : v \in JsonValues }

\* liblcm_path (given or None) and the file at that path, resp. at the default path
IndexInputs == { [given |-> g, file |-> f] : g \in BOOLEAN, f \in FileStates }

\* the sequences that list every element of a set once: the orders a Python set may
\* be iterated in
RECURSIVE Orders(_)
Orders(set) ==
    IF set = {} THEN { <<>> }
    ELSE UNION { { <<x>> \o rest : rest \in Orders(set \ {x}) } : x \in set }

\* lines 1194-1202: all_factories / all_repos, the union over the methods
AllUsed(data, field) ==
    UNION { Range(data.methods[i][field]) : i \in 1..Len(data.methods) }

\* a validation loop that appends every symbol to the found list
PlacedAllFound(symbols, liblcm_entities) ==
    [found |-> symbols, missing |-> <<>>]

\* lines 1213-1232: one validation loop over symbols in the given order
Placed(symbols, liblcm_entities) ==
    [found |-> SelectSeq(symbols, LAMBDA s : s \in liblcm_entities),
     missing |-> SelectSeq(symbols, LAMBDA s : s \notin liblcm_entities)]

\* round(found_refs / total_refs * 100, 1) in tenths of a percent (ties to even)
CoveragePct(found_refs, total_refs) ==
    IF total_refs > 0
    THEN LET q == (found_refs * 1000) \div total_refs
             r == (found_refs * 1000) % total_refs
         IN  IF 2 * r > total_refs THEN q + 1
             ELSE IF 2 * r = total_refs THEN q + (q % 2)
             ELSE q
    ELSE 1000

\* lines 1183-1243: the report for an index with the given entity names, the two sets
\* iterated in the given orders
ValidationReport(data, liblcm_entities, factory_order, repo_order) ==
    LET factories == Placed(factory_order, liblcm_entities)
        repositories == Placed(repo_order, liblcm_entities)
        interfaces == Placed(data.lcm_interfaces_used, liblcm_entities)
        total_refs == Len(factory_order) + Len(repo_order) + Len(data.lcm_interfaces_used)
        found_refs == Len(factories.found) + Len(repositories.found) + Len(interfaces.found)
    IN  [kind |-> "report",
         validated |-> TRUE,
         factories |-> factories,
         repositories |-> repositories,
         interfaces |-> interfaces,
         coverage |-> [total_references |-> total_refs,
                       found_in_liblcm |-> found_refs,
                       coverage_pct |-> CoveragePct(found_refs, total_refs)]]

\* lines 1169-1183: what stops the function before the validation: the two error
\* results and the AttributeError of .get / .keys() on a value that has none
LoadOutcome(index) ==
    IF ~index.given /\ index.file.kind = "missing"
    THEN [kind |-> "report", validated |-> FALSE, error |-> "LibLCM index not found"]
    ELSE IF index.file.kind # "json"
    THEN [kind |-> "report", validated |-> FALSE, error |-> "Failed to load LibLCM index"]
    ELSE IF index.file.value.type # "object"
    THEN [kind |-> "raise", error |-> "AttributeError"]
    ELSE IF index.file.value.entities.type \in {"null", "array"}
    THEN [kind |-> "raise", error |-> "AttributeError"]
    ELSE [kind |-> "loaded",
          entities |-> IF index.file.value.entities.type = "absent" THEN {}
                       ELSE index.file.value.entities.keys]

XrefInit ==
    /\ flexlibs_data \in FlexlibsData
    /\ liblcm_index \in IndexInputs
    /\ validation = Idle
    /\ pc = "start"
    /\ BaseIdle /\ SynthIdle /\ MainIdle /\ RerunIdle /\ RefreshIdle

\* cross_reference_liblcm
CrossReference ==
    /\ pc = "start"
    /\ LET loaded == LoadOutcome(liblcm_index)
       IN  IF loaded.kind # "loaded" THEN validation' = loaded
           ELSE \E factory_order \in Orders(AllUsed(flexlibs_data, "factories_used")),
                   repo_order \in Orders(AllUsed(flexlibs_data, "repositories_used")) :
                   validation' = ValidationReport(flexlibs_data, loaded.entities,
                                                  factory_order, repo_order)
    /\ pc' = "done"
    /\ UNCHANGED <<flexlibs_data, liblcm_index,
                   baseVars, synthVars, mainVars, rerunVars, refreshVars>>

XrefNext == CrossReference

SpecXref == XrefInit /\ [][XrefNext]_vars

\* the index document is an object with an entities map
IndexWellFormed ==
    /\ liblcm_index.file.kind = "json"
    /\ liblcm_index.file.value.type = "object"
    /\ liblcm_index.file.value.entities.type = "object"

(***************************************************************************)
(* C18 as stated: when the index document is missing or corrupt            *)
(* (unreadable, not valid JSON, or valid JSON that is not an object with   *)
(* an entities map), the result has validated = false and an error text,   *)
(* and nothing is raised.                                                  *)
(***************************************************************************)
C18_CorruptIndexReported ==
    (pc = "done" /\ ~IndexWellFormed)
        => /\ validation.kind = "report"
           /\ ~validation.validated
           /\ validation.error # ""


\* the symbols the report refers to, by group
Referenced(group) ==
    CASE group = "factories" -> AllUsed(flexlibs_data, "factories_used")
      [] group = "repositories" -> AllUsed(flexlibs_data, "repositories_used")
      [] group = "interfaces" -> Range(flexlibs_data.lcm_interfaces_used)

\* the entity names of a well-formed index, none when the document has no entities key
IndexKeys ==
    IF liblcm_index.file.value.entities.type = "object"
    THEN liblcm_index.file.value.entities.keys ELSE {}

\* how often a symbol stands in a list
Count(list, s) == Cardinality({i \in 1..Len(list) : list[i] = s})

\* a validation has succeeded
Validated == pc = "done" /\ validation.kind = "report" /\ validation.validated

(***************************************************************************)
(* C19: in a successful validation every referenced factory, repository    *)
(* and interface symbol stands once in the found list of its group when it *)
(* is an entity of the index and once in the missing list when it is not,  *)
(* and in no other list of the group; found_in_liblcm <= total_references, *)
(* total_references is the number of symbols placed, and the coverage is   *)
(* 100 when total_references is 0.                                         *)
(***************************************************************************)
C19_ValidationPartitions ==
    Validated =>
        /\ \A group \in {"factories", "repositories", "interfaces"} :
              /\ \A s \in Referenced(group) :
                    /\ Count(validation[group].found, s) = (IF s \in IndexKeys THEN 1 ELSE 0)
                    /\ Count(validation[group].missing, s) = (IF s \in IndexKeys THEN 0 ELSE 1)
              /\ Range(validation[group].found) \cup Range(validation[group].missing)
                    \subseteq Referenced(group)
        /\ validation.coverage.found_in_liblcm <= validation.coverage.total_references
        /\ validation.coverage.total_references =
              Len(validation.factories.found) + Len(validation.factories.missing)
              + Len(validation.repositories.found) + Len(validation.repositories.missing)
              + Len(validation.interfaces.found) + Len(validation.interfaces.missing)
        /\ validation.coverage.total_references = 0
              => validation.coverage.coverage_pct = 1000

\* two factories referenced, one of them an entity of the index, and an interface found
C19_Witness ==
    /\ Validated
    /\ validation.factories.found = <<"ILexEntryFactory">>
    /\ validation.factories.missing = <<"ILexSenseFactory">>
    /\ validation.interfaces.found = <<"ILexEntry">>
    /\ validation.coverage.found_in_liblcm < validation.coverage.total_references



(***************************************************************************)
(* The whole-codebase extraction run again: analyze_flexlibs2 (lines       *)
(* 875-975) and analyze_flexlibs_stable (lines 1011-1155) each run in a    *)
(* process of their own.  Between two runs on an unchanged directory the   *)
(* wall clock has advanced and the interpreter has drawn another string    *)
(* hash seed, which decides the iteration order of a set of strings; the   *)
(* directory is listed in the same order by both runs.                     *)
(***************************************************************************)
\* the order of the code points of the characters of identifiers
CodePoints == UpperLetters \o "_" \o LowerLetters

CodePoint(c) == CHOOSE i \in 1..Len(CodePoints) : SubSeq(CodePoints, i, i) = c

\* a < b on str
RECURSIVE StrLess(_, _)
StrLess(a, b) ==
    IF Len(b) = 0 THEN FALSE
    ELSE IF Len(a) = 0 THEN TRUE
    ELSE IF Head(a) = Head(b) THEN StrLess(Tail(a), Tail(b))
    ELSE CodePoint(Head(a)) < CodePoint(Head(b))

\* sorted(items) of a list of different strings
RECURSIVE Sorted(_)
Sorted(items) ==
    IF items = <<>> THEN <<>>
    ELSE LET rest == Sorted(Tail(items))
             before == {i \in 1..Len(rest) : StrLess(rest[i], Head(items))}
         IN  Pick(rest, before, 1) \o <<Head(items)>> \o Pick(rest, (1..Len(rest)) \ before, 1)

\* the string hash seeds a process may draw
HashSeeds == {"seed a", "seed b"}

\* list(s) of a set of strings: the slots of the hash table in order, which
\* the seed of the process decides
ListOfSet(s, seed) ==
    LET up == CHOOSE o \in Orders(s) : \A i, j \in 1..Len(o) : i < j => StrLess(o[i], o[j])
    IN  IF seed = "seed a" THEN up ELSE [i \in 1..Len(up) |-> up[Len(up) + 1 - i]]

\* list(s) alone, without the sort
UnsortedList(s, seed) == ListOfSet(s, seed)

\* lines 963 and 1143: sorted(list(result["metadata"]["lcm_interfaces_used"]))
SortedList(s, seed) == Sorted(ListOfSet(s, seed))

\* lines 884-891 and 963 (1020-1027 and 1143): the report as it is returned,
\* with the head fields written before the loop and the interfaces as a list
ReturnedReport(type, result, now, seed) ==
    LET head == [_schema |-> "unified-api-doc/2.0", _generated_at |-> now,
                 _source |-> [type |-> type]]
        body == [result EXCEPT !.metadata.lcm_interfaces_used = SortedList(@, seed)]
    IN  [x \in DOMAIN head \cup DOMAIN body |-> IF x \in DOMAIN head THEN head[x] ELSE body[x]]

\* a directory of either source type, the clock and the seed of the first process
RerunInit ==
    /\ rerun_input \in UNION { {[type |-> type, files |-> files] : files \in Listings(type)} :
                                 type \in {"flexlibs2", "flexlibs"} }
    /\ clock = 0
    /\ hash_seed \in HashSeeds
    /\ runs = <<>>
    /\ pc = "start"
    /\ BaseIdle /\ SynthIdle /\ MainIdle /\ XrefIdle /\ RefreshIdle

\* one run of the extraction on the directory; the next process starts later
\* and draws its own seed
RunExtraction ==
    /\ pc \in {"start", "once"}
    /\ pc' = IF pc = "start" THEN "once" ELSE "twice"
    /\ runs' = Append(runs, ReturnedReport(rerun_input.type,
                                           Analyze(rerun_input.type, rerun_input.files),
                                           clock, hash_seed))
    /\ clock' = clock + 1
    /\ hash_seed' \in HashSeeds
    /\ UNCHANGED <<rerun_input, baseVars, synthVars, mainVars, xrefVars, refreshVars>>

RerunNext == RunExtraction

SpecRerun == RerunInit /\ [][RerunNext]_vars


(***************************************************************************)
(* Two runs on the same directory.                                         *)
(***************************************************************************)
\* a report without its generation timestamp
ExceptTimestamp(r) == [x \in DOMAIN r \ {"_generated_at"} |-> r[x]]

\* C20: two runs of the extraction on the same unchanged directory return
\* reports that are equal in every field except _generated_at
C20_RerunsDifferOnlyInTimestamp ==
    pc = "twice" => ExceptTimestamp(runs[1]) = ExceptTimestamp(runs[2])

\* two runs at different times on a directory whose classes import two
\* LibLCM interfaces
C20_Witness ==
    /\ pc = "twice"
    /\ runs[1]._generated_at # runs[2]._generated_at
    /\ runs[1].metadata.lcm_interfaces_used = <<"ILexEntryFactory", "ILexEntryRepository">>
    /\ runs[2].metadata.files_analyzed = 2



(***************************************************************************)
(* The GetGloss example.                                                   *)
(***************************************************************************)
\* the method's definition holds no call and no attribute access
NoHostCalls(node) ==
    \A n \in Range(Walk(MethodNode(node))) : n.kind \notin {"Call", "Attribute"}

\* C22: a method named GetGloss with no docstring and no host-library call is
\* emitted with mapping type pure_python (the kind `pure`), usage hint
\* 'retrieval' and the description 'Returns the gloss'
C22_GetGlossExample ==
    MethodDescribed /\ synth_input.name = "GetGloss" /\ synth_input.doc_lines = <<>>
       /\ NoHostCalls(synth_input) =>
          /\ synth_output.lcm_mapping.mapping_type = "pure_python"
          /\ synth_output.usage_hint = "retrieval"
          /\ synth_output.description = "Returns the gloss"

\* def GetGloss(self, hvo: int, ws=None, k=3): pass has been described
C22_Witness ==
    /\ MethodDescribed
    /\ synth_input.name = "GetGloss"
    /\ synth_input.doc_lines = <<>>
    /\ synth_input.body = <<>>
    /\ synth_input.params # <<>>
    /\ synth_output.summary = "Returns the gloss"
    /\ synth_output.lcm_mapping.properties_accessed = <<>>



(***************************************************************************)
(* The index refresh script: main of src/src/refresh.py (lines 284-384).   *)
(* Every step runs a program through run_command (lines 49-78) or, for the *)
(* categorization, rewrites the LibLCM index in place (lines 138-251); the *)
(* model keeps what main sees of a step, the boolean it returns.           *)
(***************************************************************************)
\* the ways a program run by subprocess.run ends: exit status 0, another exit
\* status, or an exception of subprocess.run itself
CommandOutcomes == {"exit 0", "exit 1", "raise"}

\* run_command: True for exit status 0, False otherwise
RunCommand(outcome) == outcome = "exit 0"

\* the ways apply_categorization ends: the index rewritten, or an exception
CategorizationOutcomes == {"written", "raise"}

\* apply_categorization: True when the index was rewritten, False in the except
ApplyCategorization(outcome) == outcome = "written"

\* line 338
OnlyOne(args) == args.flexlibs2_only \/ args.flexlibs_only \/ args.liblcm_only

\* lines 341, 346 and 351: the conditions of the three refresh blocks
StableSelected(args) == args.flexlibs_only \/ ~OnlyOne(args)

Flexlibs2Selected(args) == args.flexlibs2_only \/ ~OnlyOne(args)

LiblcmSelected(args) == args.liblcm_only \/ ~OnlyOne(args)

\* the post-processing block entered whatever the --X-only flags say
PostprocessSelectedIgnoringOnly(args) == ~args.skip_postprocess

\* line 359
PostprocessSelected(args) == ~args.skip_postprocess /\ ~OnlyOne(args)

\* the flag taking the result of the step, so that only the last step counts
SuccessOfLastStep(success, ok) == ok

\* `if not step(): success = False`
SuccessAfter(success, ok) == IF ~ok THEN FALSE ELSE success

\* the command lines: every combination of the five flags
RefreshArgs ==
    [flexlibs2_only : BOOLEAN, flexlibs_only : BOOLEAN, liblcm_only : BOOLEAN,
     skip_categorization : BOOLEAN, skip_postprocess : BOOLEAN]

\* line 335: success = True before the first block
RefreshInit ==
    /\ refresh_args \in RefreshArgs
    /\ refresh_log = <<>>
    /\ refresh_success = TRUE
    /\ refresh_code = "running"
    /\ pc = "refresh_flexlibs_stable"
    /\ BaseIdle /\ SynthIdle /\ MainIdle /\ XrefIdle /\ RerunIdle

\* one block of main that runs a program when its condition holds
RunStep(step, selected, next) ==
    /\ pc = step
    /\ pc' = next
    /\ IF selected
       THEN \E outcome \in CommandOutcomes :
               /\ refresh_log' = Append(refresh_log, [step |-> step, ok |-> RunCommand(outcome)])
               /\ refresh_success' = SuccessAfter(refresh_success, RunCommand(outcome))
       ELSE UNCHANGED <<refresh_log, refresh_success>>
    /\ UNCHANGED <<refresh_args, refresh_code, baseVars, synthVars, mainVars, xrefVars,
                   rerunVars>>

\* lines 341-343
RefreshFlexlibsStable ==
    RunStep("refresh_flexlibs_stable", StableSelected(refresh_args), "refresh_flexlibs2")

\* lines 346-348
RefreshFlexlibs2 ==
    RunStep("refresh_flexlibs2", Flexlibs2Selected(refresh_args), "refresh_liblcm")

\* lines 351-353
RefreshLiblcm ==
    RunStep("refresh_liblcm", LiblcmSelected(refresh_args), "apply_categorization")

\* lines 354-356: the elif of the LibLCM block, reached when refresh_liblcm
\* returned True
Categorize ==
    /\ pc = "apply_categorization"
    /\ pc' = "run_postprocess_reverse_mapping"
    /\ IF /\ LiblcmSelected(refresh_args)
          /\ refresh_log[Len(refresh_log)].ok
          /\ ~refresh_args.skip_categorization
       THEN \E outcome \in CategorizationOutcomes :
               /\ refresh_log' = Append(refresh_log, [step |-> "apply_categorization",
                                                      ok |-> ApplyCategorization(outcome)])
               /\ refresh_success' = SuccessAfter(refresh_success, ApplyCategorization(outcome))
       ELSE UNCHANGED <<refresh_log, refresh_success>>
    /\ UNCHANGED <<refresh_args, refresh_code, baseVars, synthVars, mainVars, xrefVars,
                   rerunVars>>

\* lines 359-366
ReverseMapping ==
    RunStep("run_postprocess_reverse_mapping", PostprocessSelected(refresh_args),
            "run_postprocess_navigation_graph")

\* lines 369-370
NavigationGraph ==
    RunStep("run_postprocess_navigation_graph", PostprocessSelected(refresh_args),
            "run_postprocess_patterns")

\* lines 373-374
Patterns ==
    RunStep("run_postprocess_patterns", PostprocessSelected(refresh_args), "return")

\* line 384: return 0 if success else 1
RefreshReturn ==
    /\ pc = "return"
    /\ pc' = "done"
    /\ refresh_code' = IF refresh_success THEN 0 ELSE 1
    /\ UNCHANGED <<refresh_args, refresh_log, refresh_success, baseVars, synthVars, mainVars,
                   xrefVars, rerunVars>>

RefreshNext ==
    \/ RefreshFlexlibsStable \/ RefreshFlexlibs2 \/ RefreshLiblcm \/ Categorize
    \/ ReverseMapping \/ NavigationGraph \/ Patterns \/ RefreshReturn

SpecRefresh == RefreshInit /\ [][RefreshNext]_vars


(***************************************************************************)
(* What a run of the refresh script attempts, and what it returns.         *)
(***************************************************************************)
\* the steps attempted so far
Attempted == {refresh_log[i].step : i \in 1..Len(refresh_log)}

PostprocessSteps ==
    {"run_postprocess_reverse_mapping", "run_postprocess_navigation_graph",
     "run_postprocess_patterns"}

\* exactly this --X-only flag is given
Alone(flag) ==
    \A f \in {"flexlibs2_only", "flexlibs_only", "liblcm_only"} : refresh_args[f] <=> f = flag

SelectedSteps ==
    (IF StableSelected(refresh_args) THEN {"refresh_flexlibs_stable"} ELSE {})
    \cup (IF Flexlibs2Selected(refresh_args) THEN {"refresh_flexlibs2"} ELSE {})
    \cup (IF LiblcmSelected(refresh_args) THEN {"refresh_liblcm"} ELSE {})
    \cup (IF /\ LiblcmSelected(refresh_args) /\ ~refresh_args.skip_categorization
             /\ [step |-> "refresh_liblcm", ok |-> TRUE] \in Range(refresh_log)
          THEN {"apply_categorization"} ELSE {})
    \cup (IF ~refresh_args.skip_postprocess /\ ~OnlyOne(refresh_args)
          THEN PostprocessSteps ELSE {})

\* C26: main attempts every step the flags select whatever the earlier steps
\* returned (the categorization only after a LibLCM refresh that returned
\* True), each once, and returns 0 exactly when every attempted step
\* returned True, else 1
C26_AllStepsAttempted ==
    pc = "done" =>
        /\ Attempted = SelectedSteps
        /\ Len(refresh_log) = Cardinality(Attempted)
        /\ refresh_code \in {0, 1}
        /\ refresh_code = 0 <=> \A i \in 1..Len(refresh_log) : refresh_log[i].ok

\* a full run whose first step failed and whose later steps were all attempted
C26_Witness ==
    /\ pc = "done"
    /\ ~OnlyOne(refresh_args) /\ ~refresh_args.skip_postprocess
    /\ ~refresh_args.skip_categorization
    /\ Len(refresh_log) = 7
    /\ ~refresh_log[1].ok
    /\ \A i \in 2..7 : refresh_log[i].ok
    /\ refresh_code = 1

====
